---------------------------- MODULE Spec2Model ----------------------------
(***************************************************************************)
(* A model of oslo.middleware's CORS middleware (oslo_middleware/cors.py)  *)
(* and of the middleware base class it runs in (oslo_middleware/base.py).  *)
(* Spec is the middleware with one call at a time; SpecConc is a           *)
(* constructed middleware serving several calls whose steps interleave;    *)
(* SpecConfig is the module's configuration interface, set_defaults and    *)
(* the paste.deploy factory; SpecMiddleware is the order of the calls in   *)
(* ConfigurableMiddleware.__call__, for the base class and for the         *)
(* Healthcheck middleware (oslo_middleware/healthcheck/__init__.py);       *)
(* SpecSizeLimit is RequestBodySizeLimiter and the LimitingReader it puts  *)
(* around the body of a request (oslo_middleware/sizelimit.py).            *)
(*                                                                         *)
(* Text the code only stores, compares for equality or concatenates        *)
(* (origins, methods, Vary values, bodies) is a TLA+ string.  Text the     *)
(* code splits, strips, upper-cases or joins (header names and the value   *)
(* of Access-Control-Request-Headers) is a sequence of one-character       *)
(* strings, so that those functions are computed character by character.   *)
(* A header mapping is a function from the header names present to their   *)
(* values.                                                                 *)
(***************************************************************************)
EXTENDS Integers, Sequences, FiniteSets, TLC

VARIABLES
    allowed_origins,  \* CORS.allowed_origins: origin -> AllowedOrigin
    pc,               \* "idle": no call in progress; "done": a call has
                      \* returned; "added": add_origin has returned
    request,          \* the request of the last call (NoRequest: none was passed)
    response,         \* the response the wrapped application gave in that call
    result,           \* the response process_response returned in that call
    added,            \* the arguments of the add_origin call that has just
                      \* returned (NoCall: the last step was no add_origin)
    calls,            \* SpecConc: for each thread, the call of
                      \* process_response it is in and the locals of that call
    OPTS,             \* SpecConfig: cors.OPTS, option name -> default
    config_call,      \* the set_defaults or factory call that has just
                      \* returned or raised (NoConfigCall: none)
    instance,         \* the middleware the filter constructor has built
                      \* (NoInstance: none)
    middleware,       \* SpecMiddleware: the class of the middleware and, for
                      \* Healthcheck, its _path
    mw_pc,            \* where __call__ is: "idle", "application" (the wrapped
                      \* application is running), "returned"
    mw_req,           \* __call__'s req
    mw_results,       \* Healthcheck.process_request's results, in a record
                      \* (None: it has not asked the backends)
    mw_response,      \* __call__'s response: what process_request returned,
                      \* then what the wrapped application answered
    mw_returned,      \* what __call__ returned
    events,           \* the calls __call__ has made for this request, in order
    max_request_body_size,  \* SpecSizeLimit: the configured option
    sl_pc,            \* "idle", "rejected" (HTTPRequestEntityTooLarge raised
                      \* by __call__), "application" (the request forwarded)
    content_length,   \* req.content_length (None: unknown)
    body_file,        \* the data left in the request's own body stream
    limiter,          \* the LimitingReader put in req.body_file: its limit and
                      \* bytes_read (None: the stream is not wrapped)
    taken,            \* the data the reader has taken from the stream so far
    last_op,          \* the last read() or iteration step on the reader
    invoked           \* the wrapped application has been called for this request

vars == <<allowed_origins, pc, request, response, result, added, calls, OPTS, config_call, instance, middleware, mw_pc, mw_req, mw_results, mw_response, mw_returned, events, max_request_body_size, sl_pc, content_length, body_file, limiter, taken, last_op, invoked>>

\* the variables of RequestBodySizeLimiter and LimitingReader
sl_vars == <<max_request_body_size, sl_pc, content_length, body_file, limiter, taken, last_op, invoked>>

\* the variables of ConfigurableMiddleware.__call__
mw_vars == <<middleware, mw_pc, mw_req, mw_results, mw_response, mw_returned, events>>

\* the variables of the configuration interface
config_vars == <<OPTS, config_call, instance>>

\* the variables of the calls that interleave
conc_vars == <<calls>>

\* the variables of the one-call-at-a-time middleware, the registry apart
cors_vars == <<pc, request, response, result, added>>

\* the variables Spec leaves alone
outside_cors == <<conc_vars, config_vars, mw_vars, sl_vars>>

\* the variables SpecConc leaves alone
outside_conc == <<cors_vars, config_vars, mw_vars, sl_vars>>

\* the variables SpecConfig leaves alone
outside_config == <<allowed_origins, cors_vars, conc_vars, mw_vars, sl_vars>>

\* the variables SpecMiddleware leaves alone
outside_mw == <<allowed_origins, cors_vars, conc_vars, config_vars, sl_vars>>

\* the variables SpecSizeLimit leaves alone
outside_sl == <<allowed_origins, cors_vars, conc_vars, config_vars, mw_vars>>

(***************************************************************************)
(* Bounds of the model.                                                    *)
(***************************************************************************)
\* longest allowed_origin list passed to one add_origin call
MaxOrigins == 2
\* most comma-separated entries in one Access-Control-Request-Headers value
MaxReqHeaders == 2

\* the number of threads that call the middleware at the same time
MaxCalls == 2

\* the number of backends a Healthcheck middleware is configured with
MaxBackends == 3

\* the longest request body, in bytes, and the largest max_request_body_size
MaxBody == 3
MaxLimit == 2

(***************************************************************************)
(* Characters and the string functions of Python the code uses.            *)
(***************************************************************************)
Lowercase == <<"a", "b", "c", "d", "e", "f", "g", "h", "i", "j", "k", "l", "m",
               "n", "o", "p", "q", "r", "s", "t", "u", "v", "w", "x", "y", "z">>
Uppercase == <<"A", "B", "C", "D", "E", "F", "G", "H", "I", "J", "K", "L", "M",
               "N", "O", "P", "Q", "R", "S", "T", "U", "V", "W", "X", "Y", "Z">>
Digits == <<"0", "1", "2", "3", "4", "5", "6", "7", "8", "9">>
Whitespace == {" ", "\t"}

\* str.upper() on one character
UpperChar(c) ==
    IF \E i \in DOMAIN Lowercase : Lowercase[i] = c
    THEN Uppercase[CHOOSE i \in DOMAIN Lowercase : Lowercase[i] = c]
    ELSE c

\* str.upper()
Upper(s) == [i \in DOMAIN s |-> UpperChar(s[i])]

\* str.strip(): drop the leading and the trailing whitespace
RECURSIVE LStrip(_)
LStrip(s) ==
    IF s # <<>> /\ Head(s) \in Whitespace THEN LStrip(Tail(s)) ELSE s

RECURSIVE RStrip(_)
RStrip(s) ==
    IF s # <<>> /\ s[Len(s)] \in Whitespace
    THEN RStrip(SubSeq(s, 1, Len(s) - 1))
    ELSE s

Strip(s) == LStrip(RStrip(s))

\* str.rsplit(','): with no maxsplit it yields the pieces between the commas,
\* left to right, empty pieces included
RECURSIVE RSplit(_, _)
RSplit(s, sep) ==
    IF \E i \in DOMAIN s : s[i] = sep
    THEN LET i == CHOOSE j \in DOMAIN s :
                      s[j] = sep /\ \A k \in 1..(j - 1) : s[k] # sep
         IN <<SubSeq(s, 1, i - 1)>> \o RSplit(SubSeq(s, i + 1, Len(s)), sep)
    ELSE <<s>>

\* sep.join(list)
RECURSIVE Join(_, _)
Join(list, sep) ==
    IF list = <<>> THEN <<>>
    ELSE IF Len(list) = 1 THEN list[1]
    ELSE list[1] \o <<sep>> \o Join(Tail(list), sep)

\* str(n) of a non-negative integer
RECURSIVE Str(_)
Str(n) ==
    IF n < 10 THEN <<Digits[n + 1]>>
    ELSE Str(n \div 10) \o <<Digits[(n % 10) + 1]>>

\* x in list
InList(x, list) == \E i \in DOMAIN list : list[i] = x

\* headers[name] = value
SetHeader(headers, name, value) ==
    [n \in DOMAIN headers \cup {name} |->
        IF n = name THEN value ELSE headers[n]]


(***************************************************************************)
(* Header names the code parses or compares, as character sequences.       *)
(***************************************************************************)
Accept == <<"A", "c", "c", "e", "p", "t">>
AcceptLanguage == <<"A", "c", "c", "e", "p", "t", "-", "L", "a", "n", "g", "u", "a", "g", "e">>
ContentType == <<"C", "o", "n", "t", "e", "n", "t", "-", "T", "y", "p", "e">>
CacheControl == <<"C", "a", "c", "h", "e", "-", "C", "o", "n", "t", "r", "o", "l">>
ContentLanguage == <<"C", "o", "n", "t", "e", "n", "t", "-", "L", "a", "n", "g", "u", "a", "g", "e">>
Expires == <<"E", "x", "p", "i", "r", "e", "s">>
LastModified == <<"L", "a", "s", "t", "-", "M", "o", "d", "i", "f", "i", "e", "d">>
Pragma == <<"P", "r", "a", "g", "m", "a">>
XHeader1 == <<"X", "-", "H", "e", "a", "d", "e", "r", "-", "1">>
XHeader2 == <<"X", "-", "H", "e", "a", "d", "e", "r", "-", "2">>

\* CORS.simple_headers
simple_headers ==
    <<Accept, AcceptLanguage, ContentType, CacheControl,
      ContentLanguage, Expires, LastModified, Pragma>>

(***************************************************************************)
(* Requests, responses and policies.                                       *)
(***************************************************************************)
\* request=None, the default of process_response's second parameter
NoRequest == [none |-> TRUE]

\* base.NoContentTypeResponse(status='200'): webob builds an empty 200 response
\* and, default_content_type being '', gives it no Content-Type
NoContentTypeResponse ==
    [status_code |-> 200, body |-> "",
     headers |-> [n \in {"Content-Length"} |-> "0"]]

\* the response headers of the CORS protocol
CORSHeaders ==
    {"Access-Control-Allow-Origin", "Access-Control-Allow-Credentials",
     "Access-Control-Max-Age", "Access-Control-Allow-Methods",
     "Access-Control-Allow-Headers", "Access-Control-Expose-Headers"}

\* An AllowedOrigin; max_age (int | None) is a set holding at most one integer.
AllowedOrigin(allow_credentials, expose_headers, max_age, allow_methods, allow_headers) ==
    [allow_credentials |-> allow_credentials,
     expose_headers |-> expose_headers,
     max_age |-> max_age,
     allow_methods |-> allow_methods,
     allow_headers |-> allow_headers]

\* bool(x) of an int | None
Truthy(opt) == opt # {} /\ opt # {0}

(***************************************************************************)
(* CORS.add_origin                                                         *)
(***************************************************************************)
\* faulty variant: an origin already registered gets the new policy
RECURSIVE add_origins_overwrite(_, _, _)
add_origins_overwrite(origins, list, policy) ==
    IF list = <<>> THEN origins
    ELSE LET origin == Head(list)
             next == [o \in DOMAIN origins \cup {origin} |->
                         IF o = origin THEN policy ELSE origins[o]]
         IN add_origins_overwrite(next, Tail(list), policy)

\* the loop of add_origin over the list: an origin already registered (by an
\* earlier call or earlier in this list) is skipped
RECURSIVE add_origins(_, _, _)
add_origins(origins, list, policy) ==
    IF list = <<>> THEN origins
    ELSE LET origin == Head(list)
             next == IF origin \in DOMAIN origins
                     THEN origins
                     ELSE [o \in DOMAIN origins \cup {origin} |->
                              IF o = origin THEN policy ELSE origins[o]]
         IN add_origins(next, Tail(list), policy)

\* add_origin: the registry after the call.  allowed_origin is [str |-> s] for
\* a string, which is wrapped into a one-element list, and [list |-> l] for a
\* list; the list parameters are lists here (None is stored as the empty list)
add_origin(allowed_origin, allow_credentials, expose_headers, max_age, allow_methods, allow_headers) ==
    LET list == IF "str" \in DOMAIN allowed_origin
                THEN <<allowed_origin.str>>
                ELSE allowed_origin.list
    IN add_origins(allowed_origins, list,
                   AllowedOrigin(allow_credentials, expose_headers, max_age,
                                 allow_methods, allow_headers))

(***************************************************************************)
(* CORS._split_header_values                                               *)
(***************************************************************************)
\* the values of the loop: each piece stripped, the empty ones dropped
RECURSIVE StripNonEmpty(_)
StripNonEmpty(pieces) ==
    IF pieces = <<>> THEN <<>>
    ELSE LET value == Strip(Head(pieces))
         IN (IF value # <<>> THEN <<value>> ELSE <<>>)
                \o StripNonEmpty(Tail(pieces))

split_header_values(req, header_name) ==
    IF header_name \in DOMAIN req.headers
    THEN StripNonEmpty(RSplit(req.headers[header_name], ","))
    ELSE <<>>

(***************************************************************************)
(* CORS._get_cors_config_by_origin                                         *)
(***************************************************************************)
\* faulty variant: the origin is matched without regard to letter case
get_cors_config_by_origin_nocase(origin) ==
    LET folded == IF origin = "http://VALID.EXAMPLE.COM"
                  THEN "http://valid.example.com"
                  ELSE origin
    IN IF folded \notin DOMAIN allowed_origins
       THEN IF "*" \in DOMAIN allowed_origins
            THEN [ok |-> TRUE, origin |-> "*",
                  cors_config |-> allowed_origins["*"]]
            ELSE [ok |-> FALSE]
       ELSE [ok |-> TRUE, origin |-> folded,
             cors_config |-> allowed_origins[folded]]

\* faulty variant: an origin that is not registered always raises, '*' is never tried
get_cors_config_by_origin_exact(origin) ==
    IF origin \notin DOMAIN allowed_origins
    THEN [ok |-> FALSE]
    ELSE [ok |-> TRUE, origin |-> origin,
          cors_config |-> allowed_origins[origin]]

\* faulty variant: the '*' entry, when registered, is taken before the origin's own
get_cors_config_by_origin_wildcard(origin) ==
    IF "*" \in DOMAIN allowed_origins
    THEN [ok |-> TRUE, origin |-> "*", cors_config |-> allowed_origins["*"]]
    ELSE IF origin \notin DOMAIN allowed_origins
    THEN [ok |-> FALSE]
    ELSE [ok |-> TRUE, origin |-> origin,
          cors_config |-> allowed_origins[origin]]

\* ok = FALSE stands for InvalidOriginError being raised
get_cors_config_by_origin(origin) ==
    IF origin \notin DOMAIN allowed_origins
    THEN IF "*" \in DOMAIN allowed_origins
         THEN [ok |-> TRUE, origin |-> "*", cors_config |-> allowed_origins["*"]]
         ELSE [ok |-> FALSE]
    ELSE [ok |-> TRUE, origin |-> origin, cors_config |-> allowed_origins[origin]]

(***************************************************************************)
(* CORS._apply_cors_preflight_headers                                      *)
(***************************************************************************)
\* faulty variant: the lower end of the 2xx range is off by one
preflight_response_off_by_one(resp) ==
    IF 200 >= resp.status_code \/ resp.status_code >= 300
    THEN NoContentTypeResponse
    ELSE resp

\* faulty variant: the upper end of the 2xx range is off by one
preflight_response_upper(resp) ==
    IF 200 > resp.status_code \/ resp.status_code > 300
    THEN NoContentTypeResponse
    ELSE resp

\* Section 6.2, step 1: a response that is not 2xx is replaced
preflight_response(resp) ==
    IF 200 > resp.status_code \/ resp.status_code >= 300
    THEN NoContentTypeResponse
    ELSE resp

\* faulty variant: the requested method is compared without regard to letter case
method_permitted_nocase(request_method, cors_config) ==
    InList(IF request_method = "get" THEN "GET" ELSE request_method,
           cors_config.allow_methods)

\* Section 6.2.5: the requested method is one of the permitted methods
method_permitted(request_method, cors_config) ==
    InList(request_method, cors_config.allow_methods)

\* faulty variant: the requested headers are compared case-sensitively
headers_permitted_case(request_headers, cors_config) ==
    LET permitted_headers == cors_config.allow_headers \o simple_headers
    IN \A i \in DOMAIN request_headers :
           InList(request_headers[i], permitted_headers)

\* Section 6.2.6: every requested header is, upper-cased, a permitted one
headers_permitted(request_headers, cors_config) ==
    LET both == cors_config.allow_headers \o simple_headers
        permitted_headers == [i \in DOMAIN both |-> Upper(both[i])]
    IN \A i \in DOMAIN request_headers :
           InList(Upper(request_headers[i]), permitted_headers)

\* faulty variant: Access-Control-Allow-Methods is set only together with
\* Access-Control-Allow-Headers
preflight_headers_partial(headers, origin, cors_config, request_method, request_headers) ==
    LET h1 == SetHeader(headers, "Vary", "Origin")
        h2 == SetHeader(h1, "Access-Control-Allow-Origin", origin)
        h3 == IF cors_config.allow_credentials
              THEN SetHeader(h2, "Access-Control-Allow-Credentials", "true")
              ELSE h2
        h4 == IF Truthy(cors_config.max_age)
              THEN SetHeader(h3, "Access-Control-Max-Age",
                             Str(CHOOSE n \in cors_config.max_age : TRUE))
              ELSE h3
    IN IF request_headers # <<>>
       THEN SetHeader(
                SetHeader(h4, "Access-Control-Allow-Methods", request_method),
                "Access-Control-Allow-Headers", Join(request_headers, ","))
       ELSE h4

\* the methods of a list joined by ','
RECURSIVE JoinMethods(_)
JoinMethods(list) ==
    IF list = <<>> THEN ""
    ELSE IF Len(list) = 1 THEN list[1]
    ELSE list[1] \o "," \o JoinMethods(Tail(list))

\* faulty variant: Access-Control-Allow-Methods lists the policy's allow_methods
preflight_headers_all_methods(headers, origin, cors_config, request_method, request_headers) ==
    LET h1 == SetHeader(headers, "Vary", "Origin")
        h2 == SetHeader(h1, "Access-Control-Allow-Origin", origin)
        h3 == IF cors_config.allow_credentials
              THEN SetHeader(h2, "Access-Control-Allow-Credentials", "true")
              ELSE h2
        h4 == IF Truthy(cors_config.max_age)
              THEN SetHeader(h3, "Access-Control-Max-Age",
                             Str(CHOOSE n \in cors_config.max_age : TRUE))
              ELSE h3
        h5 == SetHeader(h4, "Access-Control-Allow-Methods",
                        JoinMethods(cors_config.allow_methods))
    IN IF request_headers # <<>>
       THEN SetHeader(h5, "Access-Control-Allow-Headers",
                      Join(request_headers, ","))
       ELSE h5

\* faulty variant: Access-Control-Allow-Headers is set also for an empty list
preflight_headers_always_allow(headers, origin, cors_config, request_method, request_headers) ==
    LET h1 == SetHeader(headers, "Vary", "Origin")
        h2 == SetHeader(h1, "Access-Control-Allow-Origin", origin)
        h3 == IF cors_config.allow_credentials
              THEN SetHeader(h2, "Access-Control-Allow-Credentials", "true")
              ELSE h2
        h4 == IF Truthy(cors_config.max_age)
              THEN SetHeader(h3, "Access-Control-Max-Age",
                             Str(CHOOSE n \in cors_config.max_age : TRUE))
              ELSE h3
        h5 == SetHeader(h4, "Access-Control-Allow-Methods", request_method)
    IN SetHeader(h5, "Access-Control-Allow-Headers",
                 Join(request_headers, ","))

\* faulty variant: Vary is appended to, as on the regular path
preflight_headers_vary(headers, origin, cors_config, request_method, request_headers) ==
    LET h1 == IF "Vary" \in DOMAIN headers
              THEN SetHeader(headers, "Vary", headers["Vary"] \o ",Origin")
              ELSE SetHeader(headers, "Vary", "Origin")
        h2 == SetHeader(h1, "Access-Control-Allow-Origin", origin)
        h3 == IF cors_config.allow_credentials
              THEN SetHeader(h2, "Access-Control-Allow-Credentials", "true")
              ELSE h2
        h4 == IF Truthy(cors_config.max_age)
              THEN SetHeader(h3, "Access-Control-Max-Age",
                             Str(CHOOSE n \in cors_config.max_age : TRUE))
              ELSE h3
        h5 == SetHeader(h4, "Access-Control-Allow-Methods", request_method)
    IN IF request_headers # <<>>
       THEN SetHeader(h5, "Access-Control-Allow-Headers",
                      Join(request_headers, ","))
       ELSE h5

\* faulty variant: the preflight decoration also exposes the policy's headers
preflight_headers_expose(headers, origin, cors_config, request_method, request_headers) ==
    LET h1 == SetHeader(headers, "Vary", "Origin")
        h2 == SetHeader(h1, "Access-Control-Allow-Origin", origin)
        h3 == IF cors_config.allow_credentials
              THEN SetHeader(h2, "Access-Control-Allow-Credentials", "true")
              ELSE h2
        h4 == IF Truthy(cors_config.max_age)
              THEN SetHeader(h3, "Access-Control-Max-Age",
                             Str(CHOOSE n \in cors_config.max_age : TRUE))
              ELSE h3
        h5 == SetHeader(h4, "Access-Control-Allow-Methods", request_method)
        h6 == IF request_headers # <<>>
              THEN SetHeader(h5, "Access-Control-Allow-Headers",
                             Join(request_headers, ","))
              ELSE h5
    IN IF cors_config.expose_headers # <<>>
       THEN SetHeader(h6, "Access-Control-Expose-Headers",
                      Join(cors_config.expose_headers, ","))
       ELSE h6

\* Sections 6.2.7 to 6.2.10: the headers set once every check has passed
preflight_headers(headers, origin, cors_config, request_method, request_headers) ==
    LET h1 == SetHeader(headers, "Vary", "Origin")
        h2 == SetHeader(h1, "Access-Control-Allow-Origin", origin)
        h3 == IF cors_config.allow_credentials
              THEN SetHeader(h2, "Access-Control-Allow-Credentials", "true")
              ELSE h2
        h4 == IF Truthy(cors_config.max_age)
              THEN SetHeader(h3, "Access-Control-Max-Age",
                             Str(CHOOSE n \in cors_config.max_age : TRUE))
              ELSE h3
        h5 == SetHeader(h4, "Access-Control-Allow-Methods", request_method)
    IN IF request_headers # <<>>
       THEN SetHeader(h5, "Access-Control-Allow-Headers",
                      Join(request_headers, ","))
       ELSE h5

\* faulty variant: a request without Access-Control-Request-Method is taken to
\* ask for GET
apply_cors_preflight_headers_default(req, resp) ==
    LET resp1 == preflight_response(resp)
    IN IF "Origin" \notin DOMAIN req.headers THEN resp1
       ELSE LET found == get_cors_config_by_origin(req.headers["Origin"])
            IN IF ~found.ok THEN resp1
               ELSE LET request_method ==
                            IF "Access-Control-Request-Method"
                                   \in DOMAIN req.headers
                            THEN req.headers["Access-Control-Request-Method"]
                            ELSE "GET"
                        request_headers ==
                            split_header_values(
                                req, "Access-Control-Request-Headers")
                    IN IF ~method_permitted(request_method,
                                            found.cors_config)
                       THEN resp1
                       ELSE IF ~headers_permitted(request_headers,
                                                  found.cors_config)
                       THEN resp1
                       ELSE [resp1 EXCEPT !.headers =
                                preflight_headers(
                                    resp1.headers, found.origin,
                                    found.cors_config, request_method,
                                    request_headers)]

apply_cors_preflight_headers(req, resp) ==
    LET resp1 == preflight_response(resp)
    IN IF "Origin" \notin DOMAIN req.headers THEN resp1
       ELSE LET found == get_cors_config_by_origin(req.headers["Origin"])
            IN IF ~found.ok THEN resp1
               ELSE IF "Access-Control-Request-Method" \notin DOMAIN req.headers
               THEN resp1
               ELSE LET request_method ==
                            req.headers["Access-Control-Request-Method"]
                        request_headers ==
                            split_header_values(
                                req, "Access-Control-Request-Headers")
                    IN IF ~method_permitted(request_method,
                                            found.cors_config)
                       THEN resp1
                       ELSE IF ~headers_permitted(request_headers,
                                                  found.cors_config)
                       THEN resp1
                       ELSE [resp1 EXCEPT !.headers =
                                preflight_headers(
                                    resp1.headers, found.origin,
                                    found.cors_config, request_method,
                                    request_headers)]

(***************************************************************************)
(* CORS._apply_cors_request_headers                                        *)
(***************************************************************************)
\* faulty variant: Vary is overwritten, as on the preflight path
request_headers_applied_vary(headers, origin, cors_config) ==
    LET h1 == SetHeader(headers, "Vary", "Origin")
        h2 == SetHeader(h1, "Access-Control-Allow-Origin", origin)
        h3 == IF cors_config.allow_credentials
              THEN SetHeader(h2, "Access-Control-Allow-Credentials", "true")
              ELSE h2
    IN IF cors_config.expose_headers # <<>>
       THEN SetHeader(h3, "Access-Control-Expose-Headers",
                      Join(cors_config.expose_headers, ","))
       ELSE h3

\* faulty variant: Access-Control-Allow-Credentials is always sent, 'false' included
request_headers_applied_creds(headers, origin, cors_config) ==
    LET h1 == IF "Vary" \in DOMAIN headers
              THEN SetHeader(headers, "Vary", headers["Vary"] \o ",Origin")
              ELSE SetHeader(headers, "Vary", "Origin")
        h2 == SetHeader(h1, "Access-Control-Allow-Origin", origin)
        h3 == SetHeader(h2, "Access-Control-Allow-Credentials",
                        IF cors_config.allow_credentials THEN "true"
                        ELSE "false")
    IN IF cors_config.expose_headers # <<>>
       THEN SetHeader(h3, "Access-Control-Expose-Headers",
                      Join(cors_config.expose_headers, ","))
       ELSE h3

\* faulty variant: Access-Control-Expose-Headers is set also for an empty list
request_headers_applied_expose(headers, origin, cors_config) ==
    LET h1 == IF "Vary" \in DOMAIN headers
              THEN SetHeader(headers, "Vary", headers["Vary"] \o ",Origin")
              ELSE SetHeader(headers, "Vary", "Origin")
        h2 == SetHeader(h1, "Access-Control-Allow-Origin", origin)
        h3 == IF cors_config.allow_credentials
              THEN SetHeader(h2, "Access-Control-Allow-Credentials", "true")
              ELSE h2
    IN SetHeader(h3, "Access-Control-Expose-Headers",
                 Join(cors_config.expose_headers, ","))

\* Sections 6.1.3 and 6.1.4: the headers set for a matched origin
request_headers_applied(headers, origin, cors_config) ==
    LET h1 == IF "Vary" \in DOMAIN headers
              THEN SetHeader(headers, "Vary", headers["Vary"] \o ",Origin")
              ELSE SetHeader(headers, "Vary", "Origin")
        h2 == SetHeader(h1, "Access-Control-Allow-Origin", origin)
        h3 == IF cors_config.allow_credentials
              THEN SetHeader(h2, "Access-Control-Allow-Credentials", "true")
              ELSE h2
    IN IF cors_config.expose_headers # <<>>
       THEN SetHeader(h3, "Access-Control-Expose-Headers",
                      Join(cors_config.expose_headers, ","))
       ELSE h3

\* faulty variant: InvalidOriginError is not caught on the regular path
apply_cors_request_headers_raise(req, resp) ==
    IF "Origin" \notin DOMAIN req.headers THEN resp
    ELSE LET found == get_cors_config_by_origin(req.headers["Origin"])
         IN IF ~found.ok THEN [raised |-> "InvalidOriginError"]
            ELSE [resp EXCEPT !.headers =
                     request_headers_applied(
                         resp.headers, found.origin, found.cors_config)]

\* Section 6.1: the regular path; InvalidOriginError is caught and the response
\* returned as it is
apply_cors_request_headers(req, resp) ==
    IF "Origin" \notin DOMAIN req.headers THEN resp
    ELSE LET found == get_cors_config_by_origin(req.headers["Origin"])
         IN IF ~found.ok THEN resp
            ELSE [resp EXCEPT !.headers =
                     request_headers_applied(
                         resp.headers, found.origin, found.cors_config)]

(***************************************************************************)
(* CORS.process_response                                                   *)
(***************************************************************************)
\* faulty variant: the precheck looks for Access-Control-Allow-Credentials
process_response_other_precheck(resp, req) ==
    IF "Access-Control-Allow-Credentials" \in DOMAIN resp.headers THEN resp
    ELSE IF req = NoRequest THEN resp
    ELSE IF req.method = "OPTIONS" THEN apply_cors_preflight_headers(req, resp)
    ELSE apply_cors_request_headers(req, resp)

\* faulty variant: the precheck for the application's own CORS response is missing
process_response_no_precheck(resp, req) ==
    IF req = NoRequest THEN resp
    ELSE IF req.method = "OPTIONS" THEN apply_cors_preflight_headers(req, resp)
    ELSE apply_cors_request_headers(req, resp)

process_response(resp, req) ==
    IF "Access-Control-Allow-Origin" \in DOMAIN resp.headers THEN resp
    ELSE IF req = NoRequest THEN resp
    ELSE IF req.method = "OPTIONS" THEN apply_cors_preflight_headers(req, resp)
    ELSE apply_cors_request_headers(req, resp)

\* faulty variant: the permitted headers are built by extending the policy's
\* allow_headers list in place with the simple headers
allowed_origins_after_extend(resp, req) ==
    IF "Access-Control-Allow-Origin" \in DOMAIN resp.headers THEN allowed_origins
    ELSE IF req = NoRequest THEN allowed_origins
    ELSE IF req.method # "OPTIONS" THEN allowed_origins
    ELSE IF "Origin" \notin DOMAIN req.headers THEN allowed_origins
    ELSE LET found == get_cors_config_by_origin(req.headers["Origin"])
         IN IF ~found.ok THEN allowed_origins
            ELSE IF "Access-Control-Request-Method" \notin DOMAIN req.headers
            THEN allowed_origins
            ELSE IF ~method_permitted(
                        req.headers["Access-Control-Request-Method"],
                        found.cors_config)
            THEN allowed_origins
            ELSE [allowed_origins EXCEPT
                     ![found.origin].allow_headers = @ \o simple_headers]

\* self.allowed_origins after process_response(resp, req): the method and the
\* two it calls only read the registry; the permitted headers are a new list
\* (allow_headers + simple_headers), the policy's own lists are not written
allowed_origins_after(resp, req) == allowed_origins

(***************************************************************************)
(* The inputs: origins, policies, requests and the wrapped application's   *)
(* responses.                                                              *)
(***************************************************************************)
ValidOrigin == "http://valid.example.com"
UpperOrigin == "http://VALID.EXAMPLE.COM"

\* the origins add_origin is called with
RegisteredOrigins == {ValidOrigin, "*"}

\* the values of a request's Origin header
RequestOrigins == {ValidOrigin, UpperOrigin}

\* the values of a request's Access-Control-Request-Method header
RequestMethods == {"GET", "get", "PUT"}

\* the policies add_origin is called with
Policies ==
    {AllowedOrigin(FALSE, <<>>, {}, <<"GET">>, <<>>),
     AllowedOrigin(TRUE, <<XHeader1, XHeader2>>, {3600}, <<"PUT", "GET">>,
                   <<XHeader1>>),
     AllowedOrigin(FALSE, <<XHeader2>>, {0}, <<"GET">>, <<XHeader1>>)}

\* the allowed_origin arguments: a string, or a list of up to MaxOrigins origins
AllowedOriginArgs ==
    {[str |-> o] : o \in RegisteredOrigins}
        \cup {[list |-> l] :
                 l \in UNION {[1..n -> RegisteredOrigins] : n \in 0..MaxOrigins}}

\* the entries between the commas of an Access-Control-Request-Headers value
HeaderEntries ==
    {<<"x", "-", "h", "e", "a", "d", "e", "r", "-", "1", " ">>,
     <<" ", "a", "c", "c", "e", "p", "t">>,
     <<>>,
     <<"X", "-", "B", "a", "d">>}

\* the values of Access-Control-Request-Headers: up to MaxReqHeaders entries
RequestHeaderValues ==
    {Join(l, ",") :
        l \in UNION {[1..n -> HeaderEntries] : n \in 1..MaxReqHeaders}}

\* a request; origin, method and headers are sets of at most one value, empty
\* when the request does not carry the header
Request(method, origin, request_method, request_headers) ==
    [method |-> method,
     headers |->
        [n \in {"Origin" : v \in origin}
                 \cup {"Access-Control-Request-Method" : v \in request_method}
                 \cup {"Access-Control-Request-Headers" : v \in request_headers}
         |-> IF n = "Origin" THEN CHOOSE v \in origin : TRUE
             ELSE IF n = "Access-Control-Request-Method"
             THEN CHOOSE v \in request_method : TRUE
             ELSE CHOOSE v \in request_headers : TRUE]]

Optional(S) == {{}} \cup {{v} : v \in S}

Requests ==
    {Request("OPTIONS", o, m, h) :
        o \in Optional(RequestOrigins), m \in Optional(RequestMethods),
        h \in Optional(RequestHeaderValues)}
    \cup
    {Request("GET", o, m, {XHeader1 : v \in m}) :
        o \in Optional(RequestOrigins), m \in Optional({"GET"})}

\* the status codes of the wrapped application's responses
StatusCodes == {199, 200, 299, 300, 404}

\* the header sets of the wrapped application's responses: none of the CORS
\* headers, a CORS response of its own, or a stray CORS header without
\* Access-Control-Allow-Origin; each with or without a Vary header
PlainHeaders ==
    [n \in {"Content-Type", "Content-Length"} |->
        IF n = "Content-Type" THEN "text/plain" ELSE "11"]

ServerCORSHeaders ==
    SetHeader(
        SetHeader(
            SetHeader(PlainHeaders, "Access-Control-Allow-Origin",
                      "http://server.example.com"),
            "Access-Control-Allow-Methods", "POST"),
        "X-Server-Generated-Response", "1")

StrayCORSHeaders ==
    SetHeader(PlainHeaders, "Access-Control-Allow-Credentials", "false")

ResponseHeaders ==
    LET base == {PlainHeaders, ServerCORSHeaders, StrayCORSHeaders}
    IN base \cup {SetHeader(h, "Vary", "Custom-Vary") : h \in base}

Responses ==
    {[status_code |-> c, body |-> "Hello World", headers |-> h] :
        c \in StatusCodes, h \in ResponseHeaders}

\* the value of request, response and result while no call has been made
NoResponse == [none |-> TRUE]

\* the value of added while the last step was no add_origin call; after a
\* call it holds the call's arguments and the registry the call started from
NoCall == [none |-> TRUE]

(***************************************************************************)
(* The module's options and the values the variables of each part have     *)
(* while another part runs.                                                *)
(***************************************************************************)
\* the names of cors.OPTS, in its order
OptNames ==
    <<"allowed_origin", "allow_credentials", "expose_headers", "max_age",
      "allow_methods", "allow_headers">>

\* the defaults cors.OPTS is defined with, as Python literals
OPTSDefaults ==
    [n \in {OptNames[i] : i \in DOMAIN OptNames} |->
        CASE n = "allowed_origin" -> "None"
          [] n = "allow_credentials" -> "True"
          [] n = "expose_headers" -> "[]"
          [] n = "max_age" -> "3600"
          [] n = "allow_methods" ->
                 "['OPTIONS','GET','HEAD','POST','PUT','DELETE','TRACE','PATCH']"
          [] n = "allow_headers" -> "[]"]

NoConfigCall == [call |-> "none"]

NoInstance == [none |-> TRUE]

\* no call of the one-call-at-a-time middleware is in progress
CORSAtRest ==
    /\ pc = "idle"
    /\ request = [none |-> TRUE]
    /\ response = [none |-> TRUE]
    /\ result = [none |-> TRUE]
    /\ added = [none |-> TRUE]

\* the options as the module defines them, no configuration call made
ConfigAtRest ==
    /\ OPTS = OPTSDefaults
    /\ config_call = NoConfigCall
    /\ instance = NoInstance

\* Python's None, for a response or a request
None == [none |-> TRUE]

\* a base middleware on which __call__ is not running
MiddlewareAtRest ==
    /\ middleware = [class |-> "ConfigurableMiddleware"]
    /\ mw_pc = "idle"
    /\ mw_req = None
    /\ mw_results = None
    /\ mw_response = None
    /\ mw_returned = None
    /\ events = <<>>

NoOp == [op |-> "none"]

\* a RequestBodySizeLimiter with the smallest limit and no request
SizeLimitAtRest ==
    /\ max_request_body_size = 0
    /\ sl_pc = "idle"
    /\ content_length = None
    /\ body_file = <<>>
    /\ limiter = None
    /\ taken = <<>>
    /\ last_op = NoOp
    /\ invoked = FALSE

\* the threads that call the middleware
Threads == 1..MaxCalls

\* the value of calls[t] while thread t is in no call
NoCallInProgress == [pc |-> "idle"]

(***************************************************************************)
(* The state machine.                                                      *)
(***************************************************************************)
\* CORS.__init__ before _init_conf registers the configured origins
Init ==
    /\ allowed_origins = <<>>
    /\ pc = "idle"
    /\ request = NoRequest
    /\ response = NoResponse
    /\ result = NoResponse
    /\ added = NoCall
    /\ calls = [t \in Threads |-> NoCallInProgress]
    /\ ConfigAtRest
    /\ MiddlewareAtRest
    /\ SizeLimitAtRest

\* a call of add_origin, by _init_conf or by the application setting up
AddOrigin ==
    /\ pc = "idle"
    /\ \E a \in AllowedOriginArgs, p \in Policies :
          /\ allowed_origins' =
                 add_origin(a, p.allow_credentials, p.expose_headers, p.max_age,
                            p.allow_methods, p.allow_headers)
          /\ added' = [allowed_origin |-> a, policy |-> p,
                       before |-> allowed_origins]
    /\ pc' = "added"
    /\ UNCHANGED <<request, response, result>>
    /\ UNCHANGED outside_cors

\* add_origin has returned to its caller
Registered ==
    /\ pc = "added"
    /\ pc' = "idle"
    /\ added' = NoCall
    /\ UNCHANGED <<allowed_origins, request, response, result>>
    /\ UNCHANGED outside_cors

\* ConfigurableMiddleware.__call__: process_request returns None, the wrapped
\* application answers, and process_response is applied to its response
Call ==
    /\ pc = "idle"
    /\ \E req \in Requests, resp \in Responses :
          /\ request' = req
          /\ response' = resp
          /\ result' = process_response(resp, req)
          /\ allowed_origins' = allowed_origins_after(resp, req)
    /\ pc' = "done"
    /\ UNCHANGED added
    /\ UNCHANGED outside_cors

\* process_response called with a response alone
ProcessResponse ==
    /\ pc = "idle"
    /\ \E resp \in Responses :
          /\ request' = NoRequest
          /\ response' = resp
          /\ result' = process_response(resp, NoRequest)
          /\ allowed_origins' = allowed_origins_after(resp, NoRequest)
    /\ pc' = "done"
    /\ UNCHANGED added
    /\ UNCHANGED outside_cors

\* process_response called once more, with the response it has just returned
\* and the same request: response holds the first result, result the second
Reapply ==
    /\ pc = "done"
    /\ response' = result
    /\ result' = process_response(result, request)
    /\ allowed_origins' = allowed_origins_after(result, request)
    /\ pc' = "again"
    /\ UNCHANGED <<request, added>>
    /\ UNCHANGED outside_cors

\* the caller has taken the response
Return ==
    /\ pc \in {"done", "again"}
    /\ pc' = "idle"
    /\ request' = NoRequest
    /\ response' = NoResponse
    /\ result' = NoResponse
    /\ UNCHANGED <<allowed_origins, added>>
    /\ UNCHANGED outside_cors

Next == AddOrigin \/ Registered \/ Call \/ ProcessResponse \/ Reapply \/ Return

Spec == Init /\ [][Next]_vars

(***************************************************************************)
(* Several calls of process_response on one constructed middleware.  Each  *)
(* thread runs the code of a call in steps, between which the other        *)
(* threads run: the precheck and the choice of the path, the lookup of the *)
(* origin, the checks of the preflight path, and the setting of the        *)
(* headers.  The response is the thread's own object; the registry, and    *)
(* the policy the lookup returned a reference to, are shared and read      *)
(* again at each step.                                                     *)
(***************************************************************************)
\* the requests and the responses of the interleaved calls
ConcRequests ==
    {Request("OPTIONS", {o}, {"GET"}, {XHeader1}) : o \in RequestOrigins}
        \cup {Request("GET", o, {}, {}) : o \in Optional(RequestOrigins)}

ConcResponses ==
    {[status_code |-> 200, body |-> "Hello World",
      headers |-> SetHeader(PlainHeaders, "Vary", "Custom-Vary")],
     [status_code |-> 404, body |-> "Hello World", headers |-> PlainHeaders],
     [status_code |-> 200, body |-> "Hello World",
      headers |-> ServerCORSHeaders]}

\* the registries of a constructed middleware: _init_conf's add_origin call
\* and one for a 'cors.' section
ConstructedRegistries ==
    LET lists == {<<>>, <<ValidOrigin>>, <<"*">>}
    IN {add_origins(add_origins(<<>>, l1, p1), l2, p2) :
           l1 \in lists, l2 \in lists, p1 \in Policies, p2 \in Policies}

\* faulty variant: a match through '*' is stored under the request's origin
allowed_origins_after_lookup_memo(origin) ==
    IF origin \notin DOMAIN allowed_origins /\ "*" \in DOMAIN allowed_origins
    THEN [o \in DOMAIN allowed_origins \cup {origin} |->
             IF o = origin THEN allowed_origins["*"] ELSE allowed_origins[o]]
    ELSE allowed_origins

\* self.allowed_origins after _get_cors_config_by_origin(origin): the lookup
\* only reads it
allowed_origins_after_lookup(origin) == allowed_origins

\* another thread is inside a call
Overlaps(t) == \E u \in Threads \ {t} : calls[u].pc \notin {"idle", "done"}

\* thread t goes on: its call record c, with the overlap noted
Step(t, c) ==
    calls' = [calls EXCEPT ![t] = [c EXCEPT !.overlap = @ \/ Overlaps(t)]]

InitConc ==
    /\ allowed_origins \in ConstructedRegistries
    /\ calls = [t \in Threads |-> NoCallInProgress]
    /\ CORSAtRest
    /\ ConfigAtRest
    /\ MiddlewareAtRest
    /\ SizeLimitAtRest

\* thread t enters process_response(response, request); alone is what the call
\* returns when no other call runs, response the thread's response object
Enter(t) ==
    /\ calls[t].pc = "idle"
    /\ \E req \in ConcRequests, resp \in ConcResponses :
          calls' = [calls EXCEPT ![t] =
                       [pc |-> "entered", request |-> req, inner |-> resp,
                        response |-> resp, origin |-> "",
                        alone |-> process_response(resp, req),
                        overlap |-> Overlaps(t)]]
    /\ UNCHANGED allowed_origins
    /\ UNCHANGED outside_conc

\* the precheck, the choice of the path, the replacement of a response that
\* is not 2xx on the preflight path, and the test for the Origin header
Precheck(t) ==
    /\ calls[t].pc = "entered"
    /\ LET c == calls[t]
           resp1 == IF c.request.method = "OPTIONS"
                    THEN preflight_response(c.response)
                    ELSE c.response
       IN IF "Access-Control-Allow-Origin" \in DOMAIN c.response.headers
          THEN Step(t, [c EXCEPT !.pc = "done"])
          ELSE IF "Origin" \notin DOMAIN c.request.headers
          THEN Step(t, [c EXCEPT !.pc = "done", !.response = resp1])
          ELSE Step(t, [c EXCEPT !.pc = "lookup", !.response = resp1])
    /\ UNCHANGED allowed_origins
    /\ UNCHANGED outside_conc

\* _get_cors_config_by_origin: origin is the key it returned, whose policy the
\* later steps read from the registry
Lookup(t) ==
    /\ calls[t].pc = "lookup"
    /\ LET c == calls[t]
           found == get_cors_config_by_origin(c.request.headers["Origin"])
       IN /\ IF ~found.ok
             THEN Step(t, [c EXCEPT !.pc = "done"])
             ELSE Step(t, [c EXCEPT !.origin = found.origin,
                                    !.pc = IF c.request.method = "OPTIONS"
                                           THEN "checks" ELSE "decorate"])
          /\ allowed_origins' =
                 allowed_origins_after_lookup(c.request.headers["Origin"])
    /\ UNCHANGED outside_conc

\* the preflight path's tests of the requested method and headers
PreflightChecks(t) ==
    /\ calls[t].pc = "checks"
    /\ LET c == calls[t]
           cors_config == allowed_origins[c.origin]
       IN IF "Access-Control-Request-Method" \notin DOMAIN c.request.headers
          THEN Step(t, [c EXCEPT !.pc = "done"])
          ELSE IF ~method_permitted(
                      c.request.headers["Access-Control-Request-Method"],
                      cors_config)
          THEN Step(t, [c EXCEPT !.pc = "done"])
          ELSE IF ~headers_permitted(
                      split_header_values(
                          c.request, "Access-Control-Request-Headers"),
                      cors_config)
          THEN Step(t, [c EXCEPT !.pc = "done"])
          ELSE Step(t, [c EXCEPT !.pc = "decorate"])
    /\ UNCHANGED allowed_origins
    /\ UNCHANGED outside_conc

\* the headers are set on the thread's response
Decorate(t) ==
    /\ calls[t].pc = "decorate"
    /\ LET c == calls[t]
           cors_config == allowed_origins[c.origin]
           headers ==
               IF c.request.method = "OPTIONS"
               THEN preflight_headers(
                        c.response.headers, c.origin, cors_config,
                        c.request.headers["Access-Control-Request-Method"],
                        split_header_values(
                            c.request, "Access-Control-Request-Headers"))
               ELSE request_headers_applied(
                        c.response.headers, c.origin, cors_config)
       IN Step(t, [c EXCEPT !.pc = "done", !.response.headers = headers])
    /\ UNCHANGED allowed_origins
    /\ UNCHANGED outside_conc

\* the call returns its response to the caller
Leave(t) ==
    /\ calls[t].pc = "done"
    /\ calls' = [calls EXCEPT ![t] = NoCallInProgress]
    /\ UNCHANGED allowed_origins
    /\ UNCHANGED outside_conc

NextConc ==
    \E t \in Threads :
        \/ Enter(t)
        \/ Precheck(t)
        \/ Lookup(t)
        \/ PreflightChecks(t)
        \/ Decorate(t)
        \/ Leave(t)

SpecConc == InitConc /\ [][NextConc]_vars

(***************************************************************************)
(* The configuration interface: set_defaults, which overrides the defaults *)
(* of cors.OPTS, and CORS.factory, which paste.deploy calls with the       *)
(* global and the local configuration and which returns the constructor    *)
(* of the filter.  Option values and configuration values are only stored  *)
(* and are text, the Python literal of the value.                          *)
(***************************************************************************)
\* a mapping with the entries of update put over those of d: dict.update
Update(d, update) ==
    [k \in DOMAIN d \cup DOMAIN update |->
        IF k \in DOMAIN update THEN update[k] ELSE d[k]]

\* oslo_config's cfg.set_defaults(opts, **kwargs): the default of every
\* option named in kwargs becomes the value passed
cfg_set_defaults(opts, kwargs) ==
    [n \in DOMAIN opts |-> IF n \in DOMAIN kwargs THEN kwargs[n] ELSE opts[n]]

\* faulty variant: the defaults are set before the names are checked
set_defaults_late_check(kwargs) ==
    LET valid_params == {n \in DOMAIN OPTS : n # "allowed_origin"}
        passed_params == DOMAIN kwargs
        wrong_params == passed_params \ valid_params
    IN IF wrong_params # {}
       THEN [raised |-> "AttributeError",
             OPTS |-> cfg_set_defaults(
                          OPTS, [n \in passed_params \cap valid_params |->
                                    kwargs[n]])]
       ELSE [raised |-> "", OPTS |-> cfg_set_defaults(OPTS, kwargs)]

\* set_defaults(**kwargs): what it raises ("": nothing) and cors.OPTS after it
set_defaults(kwargs) ==
    LET valid_params == {n \in DOMAIN OPTS : n # "allowed_origin"}
        passed_params == DOMAIN kwargs
        wrong_params == passed_params \ valid_params
    IN IF wrong_params # {}
       THEN [raised |-> "AttributeError", OPTS |-> OPTS]
       ELSE [raised |-> "", OPTS |-> cfg_set_defaults(OPTS, kwargs)]

\* ConfigurableMiddleware.factory: the constructor it returns holds conf, the
\* global configuration (None and the empty dict alike give {}) updated with
\* the local one
base_factory(global_conf, local_conf) ==
    LET conf == IF global_conf \in {[none |-> TRUE], <<>>}
                THEN <<>>
                ELSE global_conf
    IN [raised |-> "", conf |-> Update(conf, local_conf)]

\* faulty variant: the keys are looked for in the global configuration too
factory_global(global_conf, local_conf) ==
    LET conf == IF global_conf = [none |-> TRUE] THEN <<>> ELSE global_conf
    IN IF /\ "allowed_origin" \notin DOMAIN local_conf \cup DOMAIN conf
          /\ "oslo_config_project" \notin DOMAIN local_conf \cup DOMAIN conf
       THEN [raised |-> "TypeError"]
       ELSE base_factory(global_conf, local_conf)

\* CORS.factory(global_conf, **local_conf)
factory(global_conf, local_conf) ==
    IF /\ "allowed_origin" \notin DOMAIN local_conf
       /\ "oslo_config_project" \notin DOMAIN local_conf
    THEN [raised |-> "TypeError"]
    ELSE base_factory(global_conf, local_conf)

\* the names set_defaults is called with, and the value passed for each
KwargNames ==
    {"allowed_origin", "allow_credentials", "expose_headers", "max_age",
     "allow_methods", "allow_headers", "allow_origin"}

KwargValue(n) ==
    CASE n = "allowed_origin" -> "'test'"
      [] n = "allow_credentials" -> "False"
      [] n = "expose_headers" -> "['X-Header-1']"
      [] n = "max_age" -> "10"
      [] n = "allow_methods" -> "['GET','DELETE']"
      [] n = "allow_headers" -> "['X-Header-2']"
      [] OTHER -> "'*'"

Kwargs == {[n \in names |-> KwargValue(n)] : names \in SUBSET KwargNames}

\* the configurations paste.deploy passes to the factory
ConfKeys == {"allowed_origin", "oslo_config_project", "allow_methods"}

GlobalConfs ==
    {[none |-> TRUE]}
        \cup {[k \in keys |-> "global"] : keys \in SUBSET ConfKeys}

LocalConfs == {[k \in keys |-> "local"] : keys \in SUBSET ConfKeys}

InitConfig ==
    /\ ConfigAtRest
    /\ allowed_origins = <<>>
    /\ CORSAtRest
    /\ calls = [t \in Threads |-> NoCallInProgress]
    /\ MiddlewareAtRest
    /\ SizeLimitAtRest

\* a project calls set_defaults; before is cors.OPTS as the call found it
SetDefaults ==
    /\ config_call = NoConfigCall
    /\ \E kwargs \in Kwargs :
          LET out == set_defaults(kwargs)
          IN /\ OPTS' = out.OPTS
             /\ config_call' = [call |-> "set_defaults", kwargs |-> kwargs,
                                before |-> OPTS, raised |-> out.raised]
    /\ UNCHANGED instance
    /\ UNCHANGED outside_config

\* paste.deploy calls CORS.factory
Factory ==
    /\ config_call = NoConfigCall
    /\ \E global_conf \in GlobalConfs, local_conf \in LocalConfs :
          config_call' = [call |-> "factory", global_conf |-> global_conf,
                          local_conf |-> local_conf,
                          returned |-> factory(global_conf, local_conf)]
    /\ UNCHANGED <<OPTS, instance>>
    /\ UNCHANGED outside_config

\* paste.deploy calls the constructor the factory returned: _factory(app)
\* builds cls(app, conf), whose conf attribute is that mapping
Filter ==
    /\ config_call.call = "factory"
    /\ config_call.returned.raised = ""
    /\ instance = NoInstance
    /\ instance' = [application |-> "app", conf |-> config_call.returned.conf]
    /\ UNCHANGED <<OPTS, config_call>>
    /\ UNCHANGED outside_config

\* the caller goes on after the call
ConfigReturn ==
    /\ config_call # NoConfigCall
    /\ config_call' = NoConfigCall
    /\ instance' = NoInstance
    /\ UNCHANGED OPTS
    /\ UNCHANGED outside_config

NextConfig == SetDefaults \/ Factory \/ Filter \/ ConfigReturn

SpecConfig == InitConfig /\ [][NextConfig]_vars

(***************************************************************************)
(* ConfigurableMiddleware.__call__ and the two process_request methods it  *)
(* runs here: the base class's, which returns None, and Healthcheck's,     *)
(* which answers the requests for its path itself.  A backend's result is  *)
(* a record with available and reason; the body of a Healthcheck response  *)
(* is the text/plain one, the reasons one per line, or empty for HEAD.     *)
(***************************************************************************)
\* HEALTHY_TO_STATUS_CODES and HEAD_HEALTHY_TO_STATUS_CODES
HTTPOk == 200
HTTPNoContent == 204
HTTPServiceUnavailable == 503

HEALTHY_TO_STATUS_CODES(healthy) ==
    IF healthy THEN HTTPOk ELSE HTTPServiceUnavailable

HEAD_HEALTHY_TO_STATUS_CODES(healthy) ==
    IF healthy THEN HTTPNoContent ELSE HTTPServiceUnavailable

\* faulty variant: the last result decides
RECURSIVE are_results_healthy_last(_)
are_results_healthy_last(results) ==
    IF results = <<>> THEN TRUE
    ELSE IF Len(results) = 1 THEN Head(results).available
    ELSE are_results_healthy_last(Tail(results))

\* Healthcheck._are_results_healthy: False at the first result that is not
\* available, True at the end of the list
RECURSIVE are_results_healthy(_)
are_results_healthy(results) ==
    IF results = <<>> THEN TRUE
    ELSE IF ~Head(results).available THEN FALSE
    ELSE are_results_healthy(Tail(results))

\* the reasons of the results, one per line
RECURSIVE Reasons(_)
Reasons(results) ==
    IF results = <<>> THEN ""
    ELSE IF Len(results) = 1 THEN Head(results).reason
    ELSE Head(results).reason \o "\n" \o Reasons(Tail(results))

\* Healthcheck.process_request, results being what the backends report for
\* this request
healthcheck_process_request(req, path, results) ==
    IF req.path # path THEN None
    ELSE LET healthy == are_results_healthy(results)
         IN IF req.method = "HEAD"
            THEN [status_code |-> HEAD_HEALTHY_TO_STATUS_CODES(healthy),
                  body |-> "", content_type |-> "text/plain"]
            ELSE [status_code |-> HEALTHY_TO_STATUS_CODES(healthy),
                  body |-> Reasons(results), content_type |-> "text/plain"]

\* the process_request of the middleware's class
process_request(req, results) ==
    IF middleware.class = "Healthcheck"
    THEN healthcheck_process_request(req, middleware.path, results)
    ELSE None

\* ConfigurableMiddleware.process_response, which neither class overrides
base_process_response(resp, req) == resp

\* the middlewares, the requests, the backends' results and the answers of
\* the wrapped application
Middlewares ==
    {[class |-> "ConfigurableMiddleware"]}
        \cup {[class |-> "Healthcheck", path |-> p] :
                 p \in {"/healthcheck", "/hidden_healthcheck"}}

MwRequests ==
    {[path |-> p, method |-> m] :
        p \in {"/healthcheck", "/hidden_healthcheck", "/toto"},
        m \in {"GET", "HEAD", "POST"}}

HealthcheckResults ==
    {[available |-> TRUE, reason |-> "OK"],
     [available |-> FALSE, reason |-> "DISABLED BY FILE"]}

BackendResults ==
    UNION {[1..n -> HealthcheckResults] : n \in 0..MaxBackends}

AppResponses ==
    {[status_code |-> c, body |-> "Hello, World!!!",
      content_type |-> "text/plain"] : c \in {200, 404}}

InitMiddleware ==
    /\ middleware \in Middlewares
    /\ mw_pc = "idle"
    /\ mw_req = None
    /\ mw_results = None
    /\ mw_response = None
    /\ mw_returned = None
    /\ events = <<>>
    /\ allowed_origins = <<>>
    /\ CORSAtRest
    /\ calls = [t \in Threads |-> NoCallInProgress]
    /\ ConfigAtRest
    /\ SizeLimitAtRest

\* faulty variant: the wrapped application is called whatever process_request
\* returned
Dispatch_always ==
    /\ mw_pc = "idle"
    /\ \E req \in MwRequests, results \in BackendResults :
          LET resp == process_request(req, results)
          IN /\ mw_req' = req
             /\ mw_results' = IF middleware.class = "Healthcheck"
                                  /\ req.path = middleware.path
                               THEN [results |-> results] ELSE None
             /\ mw_response' = resp
             /\ events' = <<"process_request">>
             /\ mw_pc' = "application"
             /\ mw_returned' = None
    /\ UNCHANGED middleware
    /\ UNCHANGED outside_mw

\* __call__ up to the call of the wrapped application: process_request runs
\* and, when it returns a response, __call__ returns it
Dispatch ==
    /\ mw_pc = "idle"
    /\ \E req \in MwRequests, results \in BackendResults :
          LET resp == process_request(req, results)
          IN /\ mw_req' = req
             /\ mw_results' = IF middleware.class = "Healthcheck"
                                  /\ req.path = middleware.path
                               THEN [results |-> results] ELSE None
             /\ mw_response' = resp
             /\ events' = <<"process_request">>
             /\ IF resp # None
                THEN mw_pc' = "returned" /\ mw_returned' = resp
                ELSE mw_pc' = "application" /\ mw_returned' = None
    /\ UNCHANGED middleware
    /\ UNCHANGED outside_mw

\* the wrapped application answers and __call__ goes on to its end:
\* process_response is applied to the answer and its result returned
Application ==
    /\ mw_pc = "application"
    /\ \E resp \in AppResponses :
          /\ mw_response' = resp
          /\ mw_returned' = base_process_response(resp, mw_req)
    /\ events' = events \o <<"application", "process_response">>
    /\ mw_pc' = "returned"
    /\ UNCHANGED <<middleware, mw_req, mw_results>>
    /\ UNCHANGED outside_mw

\* the server has sent the response
Deliver ==
    /\ mw_pc = "returned"
    /\ mw_pc' = "idle"
    /\ mw_req' = None
    /\ mw_results' = None
    /\ mw_response' = None
    /\ mw_returned' = None
    /\ events' = <<>>
    /\ UNCHANGED middleware
    /\ UNCHANGED outside_mw

NextMiddleware == Dispatch \/ Application \/ Deliver

SpecMiddleware == InitMiddleware /\ [][NextMiddleware]_vars

(***************************************************************************)
(* RequestBodySizeLimiter.__call__ and LimitingReader.  A body is a        *)
(* sequence of bytes, of which "\n" ends a line: read(i) takes up to i     *)
(* bytes from the stream and an iteration step takes its next line.  The   *)
(* application that the request is forwarded to reads the body through     *)
(* the reader when __call__ has wrapped the stream.  An iteration step is  *)
(* a step of a new or of a suspended generator of __iter__; the generator  *)
(* in which the exception was raised makes no further step.                *)
(***************************************************************************)
\* the bytes
Bytes == {"a", "\n"}

\* data.read(i) of the underlying stream: the bytes it returns and the data
\* left; i is a set of at most one number, empty for read()
data_read(data, i) ==
    LET n == IF i = {} THEN Len(data)
             ELSE LET k == CHOOSE k \in i : TRUE
                  IN IF k < 0 \/ k > Len(data) THEN Len(data) ELSE k
    IN [result |-> SubSeq(data, 1, n), rest |-> SubSeq(data, n + 1, Len(data))]

\* the next chunk of "for chunk in self.data": the next line, data not empty
data_next(data) ==
    LET n == IF \E j \in DOMAIN data : data[j] = "\n"
             THEN CHOOSE j \in DOMAIN data :
                      data[j] = "\n" /\ \A k \in 1..(j - 1) : data[k] # "\n"
             ELSE Len(data)
    IN [result |-> SubSeq(data, 1, n), rest |-> SubSeq(data, n + 1, Len(data))]

\* faulty variant: the limit is tested before the bytes are counted
LimitingReader_read_early(reader, data, i) ==
    LET got == data_read(data, i)
        bytes_read == reader.bytes_read + Len(got.result)
    IN [reader |-> [reader EXCEPT !.bytes_read = bytes_read],
        data |-> got.rest,
        taken |-> got.result,
        raised |-> reader.bytes_read > reader.limit]

\* LimitingReader.read(i): the reader and the stream after it, the bytes taken
\* from the stream, and whether it raised HTTPRequestEntityTooLarge instead of
\* returning them
LimitingReader_read(reader, data, i) ==
    LET got == data_read(data, i)
        bytes_read == reader.bytes_read + Len(got.result)
    IN [reader |-> [reader EXCEPT !.bytes_read = bytes_read],
        data |-> got.rest,
        taken |-> got.result,
        raised |-> bytes_read > reader.limit]

\* one step of LimitingReader.__iter__ on a stream that has a next chunk
LimitingReader_iter(reader, data) ==
    LET got == data_next(data)
        bytes_read == reader.bytes_read + Len(got.result)
    IN [reader |-> [reader EXCEPT !.bytes_read = bytes_read],
        data |-> got.rest,
        taken |-> got.result,
        raised |-> bytes_read > reader.limit]

\* faulty variant: a body as long as the maximum is rejected, and every stream
\* that is forwarded is wrapped
limiter_call_wrap_all(length, max_size) ==
    IF length # {} /\ (CHOOSE n \in length : TRUE) >= max_size
    THEN [raised |-> TRUE, limiter |-> None]
    ELSE [raised |-> FALSE, limiter |-> [limit |-> max_size, bytes_read |-> 0]]

\* RequestBodySizeLimiter.__call__ up to req.get_response: whether it raised
\* HTTPRequestEntityTooLarge, and the LimitingReader it put in req.body_file
\* (None: none); length is a set of at most one number, empty for None
limiter_call(length, max_size) ==
    IF length # {} /\ (CHOOSE n \in length : TRUE) > max_size
    THEN [raised |-> TRUE, limiter |-> None]
    ELSE IF length = {}
    THEN [raised |-> FALSE, limiter |-> [limit |-> max_size, bytes_read |-> 0]]
    ELSE [raised |-> FALSE, limiter |-> None]

\* the bodies of the requests, and the arguments of read
Bodies == UNION {[1..n -> Bytes] : n \in 0..MaxBody}

ReadSizes == {{}, {0}, {1}, {2}, {-1}}

\* RequestBodySizeLimiter.__init__, with the configured maximum
InitSizeLimit ==
    /\ max_request_body_size \in 0..MaxLimit
    /\ sl_pc = "idle"
    /\ content_length = None
    /\ body_file = <<>>
    /\ limiter = None
    /\ taken = <<>>
    /\ last_op = NoOp
    /\ invoked = FALSE
    /\ allowed_origins = <<>>
    /\ CORSAtRest
    /\ calls = [t \in Threads |-> NoCallInProgress]
    /\ ConfigAtRest
    /\ MiddlewareAtRest

\* __call__ for a request: its body, and its Content-Length, which is the
\* length of the body when the request states it
LimiterCall ==
    /\ sl_pc = "idle"
    /\ \E body \in Bodies, known \in BOOLEAN :
          LET length == IF known THEN {Len(body)} ELSE {}
              out == limiter_call(length, max_request_body_size)
          IN /\ content_length' = IF known THEN [length |-> Len(body)] ELSE None
             /\ body_file' = body
             /\ limiter' = out.limiter
             /\ sl_pc' = IF out.raised THEN "rejected" ELSE "application"
             /\ invoked' = ~out.raised
    /\ taken' = <<>>
    /\ last_op' = NoOp
    /\ UNCHANGED max_request_body_size
    /\ UNCHANGED outside_sl

\* the application calls read on the wrapped body
Read ==
    /\ sl_pc = "application"
    /\ limiter # None
    /\ \E i \in ReadSizes :
          LET out == LimitingReader_read(limiter, body_file, i)
          IN /\ limiter' = out.reader
             /\ body_file' = out.data
             /\ taken' = taken \o out.taken
             /\ last_op' = [op |-> "read", before |-> limiter.bytes_read,
                            data |-> out.taken, raised |-> out.raised,
                            returned |-> ~out.raised]
    /\ UNCHANGED <<max_request_body_size, sl_pc, content_length, invoked>>
    /\ UNCHANGED outside_sl

\* the application takes the next chunk of an iteration over the wrapped
\* body; at the end of the stream the iteration stops and nothing is read
Iterate ==
    /\ sl_pc = "application"
    /\ limiter # None
    /\ IF body_file = <<>>
       THEN /\ last_op' = [op |-> "iter", before |-> limiter.bytes_read,
                           data |-> <<>>, raised |-> FALSE,
                           returned |-> FALSE]
            /\ UNCHANGED <<limiter, body_file, taken>>
       ELSE LET out == LimitingReader_iter(limiter, body_file)
            IN /\ limiter' = out.reader
               /\ body_file' = out.data
               /\ taken' = taken \o out.taken
               /\ last_op' = [op |-> "iter", before |-> limiter.bytes_read,
                              data |-> out.taken, raised |-> out.raised,
                              returned |-> ~out.raised]
    /\ UNCHANGED <<max_request_body_size, sl_pc, content_length, invoked>>
    /\ UNCHANGED outside_sl

\* the application reads a body that __call__ has not wrapped
RawRead ==
    /\ sl_pc = "application"
    /\ limiter = None
    /\ body_file # <<>>
    /\ \E i \in ReadSizes : body_file' = data_read(body_file, i).rest
    /\ UNCHANGED <<max_request_body_size, sl_pc, content_length, limiter, taken, last_op, invoked>>
    /\ UNCHANGED outside_sl

\* the request is over: its response, or the error, has been sent
Finish ==
    /\ sl_pc \in {"rejected", "application"}
    /\ sl_pc' = "idle"
    /\ content_length' = None
    /\ body_file' = <<>>
    /\ limiter' = None
    /\ taken' = <<>>
    /\ last_op' = NoOp
    /\ invoked' = FALSE
    /\ UNCHANGED max_request_body_size
    /\ UNCHANGED outside_sl

NextSizeLimit == LimiterCall \/ Read \/ Iterate \/ RawRead \/ Finish

SpecSizeLimit == InitSizeLimit /\ [][NextSizeLimit]_vars

(***************************************************************************)
(* Vocabulary of the properties.                                           *)
(***************************************************************************)
ACAO == "Access-Control-Allow-Origin"
ACAC == "Access-Control-Allow-Credentials"
ACRM == "Access-Control-Request-Method"
ACRH == "Access-Control-Request-Headers"

\* the headers a preflight decoration may set
PreflightCORSHeaders ==
    {ACAO, "Access-Control-Allow-Methods", "Access-Control-Allow-Headers",
     ACAC, "Access-Control-Max-Age"}

\* a call with a request has returned
Called == pc = "done" /\ request # NoRequest

IsPreflight == request.method = "OPTIONS"

HasOrigin == "Origin" \in DOMAIN request.headers

\* the application's response is 2xx
Inner2xx == response.status_code >= 200 /\ response.status_code <= 299

\* the application's response carries Access-Control-Allow-Origin
InnerHasACAO == ACAO \in DOMAIN response.headers

\* the headers of the result that the application's response did not carry
\* with that value: the headers the middleware set or changed
AddedHeaders ==
    {h \in DOMAIN result.headers :
        h \notin DOMAIN response.headers
            \/ result.headers[h] # response.headers[h]}

\* the middleware added none of the CORS headers
NoCORSHeaderAdded == AddedHeaders \cap CORSHeaders = {}

\* the middleware decorated the response
Decorated == ~InnerHasACAO /\ ACAO \in DOMAIN result.headers

\* the request's origin is a key of the registry, or '*' is
OriginMatched ==
    HasOrigin /\ (request.headers["Origin"] \in DOMAIN allowed_origins
                      \/ "*" \in DOMAIN allowed_origins)

\* the policy of the request's origin: its own entry, else the '*' entry
MatchedPolicy ==
    IF request.headers["Origin"] \in DOMAIN allowed_origins
    THEN allowed_origins[request.headers["Origin"]]
    ELSE allowed_origins["*"]

(***************************************************************************)
(* C1.  A response of the application that already carries                 *)
(* Access-Control-Allow-Origin is returned as it is, status, body and      *)
(* every header, whatever the request.                                     *)
(***************************************************************************)
C1_PrecheckKeepsResponse ==
    (Called /\ InnerHasACAO) => result = response

\* an OPTIONS request that would pass every preflight check, answered by an
\* application response with its own CORS headers
C1_Witness ==
    /\ Called /\ InnerHasACAO /\ IsPreflight
    /\ HasOrigin /\ request.headers["Origin"] \in DOMAIN allowed_origins
    /\ ACRM \in DOMAIN request.headers
    /\ InList(request.headers[ACRM], MatchedPolicy.allow_methods)
    /\ response.status_code = 404
    /\ "Vary" \in DOMAIN response.headers
    /\ result = response

(***************************************************************************)
(* C2.  On a non-OPTIONS request whose Origin is a registered origin, with *)
(* no Access-Control-Allow-Origin on the application's response, the       *)
(* result has Access-Control-Allow-Origin equal to that origin and Vary    *)
(* equal to the application's Vary followed by ',Origin', or to 'Origin'   *)
(* when the application set no Vary.                                       *)
(***************************************************************************)
C2_RegularExactOrigin ==
    (/\ Called /\ ~IsPreflight /\ HasOrigin /\ ~InnerHasACAO
     /\ request.headers["Origin"] \in DOMAIN allowed_origins)
    => /\ ACAO \in DOMAIN result.headers
       /\ result.headers[ACAO] = request.headers["Origin"]
       /\ "Vary" \in DOMAIN result.headers
       /\ result.headers["Vary"] =
              IF "Vary" \in DOMAIN response.headers
              THEN response.headers["Vary"] \o ",Origin"
              ELSE "Origin"

C2_Witness ==
    /\ Called /\ ~IsPreflight /\ HasOrigin /\ ~InnerHasACAO
    /\ request.headers["Origin"] \in DOMAIN allowed_origins
    /\ "Vary" \in DOMAIN response.headers
    /\ result.headers["Vary"] = "Custom-Vary,Origin"
    /\ result.headers[ACAO] = "http://valid.example.com"

(***************************************************************************)
(* C3.  As stated: for every request without an Origin header, whatever    *)
(* its method and the status of the application's response, the headers of *)
(* the result are the headers of the application's response.               *)
(***************************************************************************)
C3_NoOriginHeadersUnchanged ==
    (Called /\ ~HasOrigin) => result.headers = response.headers

(***************************************************************************)
(* C3, amended.  For every request without an Origin header the middleware *)
(* adds no CORS header; the headers of the result are the headers of the   *)
(* application's response, except on an OPTIONS request whose application  *)
(* response is not 2xx and carries no Access-Control-Allow-Origin: there   *)
(* the result is the fresh empty 200 response, with none of the            *)
(* application's headers.                                                  *)
(***************************************************************************)
C3_NoOriginNoCORSHeaders ==
    (Called /\ ~HasOrigin)
    => /\ NoCORSHeaderAdded
       /\ IF IsPreflight /\ ~Inner2xx /\ ~InnerHasACAO
          THEN /\ result.status_code = 200
               /\ result.body = ""
               /\ DOMAIN result.headers = {"Content-Length"}
          ELSE result = response

\* an OPTIONS request without Origin whose 404 answer is replaced
C3_Witness ==
    /\ Called /\ ~HasOrigin /\ IsPreflight /\ ~InnerHasACAO
    /\ response.status_code = 404
    /\ "Vary" \in DOMAIN response.headers
    /\ "Vary" \notin DOMAIN result.headers
    /\ result.status_code = 200

(***************************************************************************)
(* C4.  On every preflight request that passes all checks, the value of    *)
(* Access-Control-Allow-Origin is the request's Origin value, also when    *)
(* the origin was matched through the '*' entry; it is never '*'.          *)
(***************************************************************************)
C4_PreflightEchoesOrigin ==
    (Called /\ IsPreflight /\ Decorated)
    => /\ result.headers[ACAO] = request.headers["Origin"]
       /\ result.headers[ACAO] # "*"

(***************************************************************************)
(* C5.  As stated: on a non-OPTIONS request whose Origin is not a key of   *)
(* the registry, the middleware adds no CORS header, also when '*' is      *)
(* registered.                                                             *)
(***************************************************************************)
C5_RegularNeverWildcard ==
    (/\ Called /\ ~IsPreflight /\ HasOrigin
     /\ request.headers["Origin"] \notin DOMAIN allowed_origins)
    => NoCORSHeaderAdded

(***************************************************************************)
(* C5, amended.  On a non-OPTIONS request whose Origin is not a key of the *)
(* registry, the middleware returns the application's response unchanged   *)
(* when no '*' entry is registered; when '*' is registered (and the        *)
(* application's response carries no Access-Control-Allow-Origin) the      *)
(* lookup falls back to the '*' entry and the response is decorated under  *)
(* that policy: Vary and Access-Control-Allow-Origin are set, and          *)
(* Access-Control-Allow-Credentials exactly when the '*' policy allows     *)
(* credentials.                                                            *)
(***************************************************************************)
C5_RegularWildcardFallback ==
    (/\ Called /\ ~IsPreflight /\ HasOrigin
     /\ request.headers["Origin"] \notin DOMAIN allowed_origins)
    => IF "*" \in DOMAIN allowed_origins /\ ~InnerHasACAO
       THEN /\ {"Vary", ACAO} \subseteq DOMAIN result.headers
            /\ ACAC \in AddedHeaders <=> allowed_origins["*"].allow_credentials
       ELSE result = response

\* an unregistered origin decorated through the '*' entry
C5_Witness ==
    /\ Called /\ ~IsPreflight /\ HasOrigin /\ ~InnerHasACAO
    /\ request.headers["Origin"] \notin DOMAIN allowed_origins
    /\ "*" \in DOMAIN allowed_origins
    /\ "http://valid.example.com" \in DOMAIN allowed_origins
    /\ ACAO \in DOMAIN result.headers
    /\ ACAC \in DOMAIN result.headers

(***************************************************************************)
(* C6.  Origin matching is case-sensitive: with no '*' entry registered, a *)
(* request whose Origin equals no registered origin, even when it differs  *)
(* from one in letter case only, gets no Access-Control-* header from the  *)
(* middleware, on the preflight and on the regular path: every such header *)
(* of the result is one the application set, and there is none when the    *)
(* application set none.                                                   *)
(***************************************************************************)
C6_OriginCaseSensitive ==
    (/\ Called /\ HasOrigin
     /\ "*" \notin DOMAIN allowed_origins
     /\ request.headers["Origin"] \notin DOMAIN allowed_origins)
    => /\ NoCORSHeaderAdded
       /\ DOMAIN result.headers \cap CORSHeaders
              \subseteq DOMAIN response.headers

\* http://VALID.EXAMPLE.COM asks for a method http://valid.example.com may use
C6_Witness ==
    /\ Called /\ IsPreflight /\ HasOrigin
    /\ "*" \notin DOMAIN allowed_origins
    /\ "http://valid.example.com" \in DOMAIN allowed_origins
    /\ request.headers["Origin"] = "http://VALID.EXAMPLE.COM"
    /\ ACRM \in DOMAIN request.headers
    /\ InList(request.headers[ACRM],
              allowed_origins["http://valid.example.com"].allow_methods)
    /\ ACRH \notin DOMAIN request.headers
    /\ DOMAIN response.headers \cap CORSHeaders = {}
    /\ DOMAIN result.headers \cap CORSHeaders = {}

(***************************************************************************)
(* C7.  A preflight request whose Access-Control-Request-Method is not,    *)
(* case-sensitively, one of the matched origin's allow_methods gets none   *)
(* of the CORS headers from the middleware, and the result is an empty 200 *)
(* response when the application's response was not 2xx.                   *)
(***************************************************************************)
C7_MethodNotPermitted ==
    (/\ Called /\ IsPreflight /\ ~InnerHasACAO /\ OriginMatched
     /\ ACRM \in DOMAIN request.headers
     /\ ~InList(request.headers[ACRM], MatchedPolicy.allow_methods))
    => /\ NoCORSHeaderAdded
       /\ DOMAIN result.headers \cap PreflightCORSHeaders
              \subseteq DOMAIN response.headers
       /\ ~Inner2xx => /\ result.status_code = 200
                       /\ result.body = ""
                       /\ DOMAIN result.headers \cap CORSHeaders = {}

\* 'get' against a policy that permits GET, the application answering 404
C7_Witness ==
    /\ Called /\ IsPreflight /\ ~InnerHasACAO /\ OriginMatched
    /\ ACRM \in DOMAIN request.headers
    /\ request.headers[ACRM] = "get"
    /\ InList("GET", MatchedPolicy.allow_methods)
    /\ response.status_code = 404
    /\ result.status_code = 200
    /\ result.body = ""
    /\ DOMAIN result.headers \cap CORSHeaders = {}

(***************************************************************************)
(* C8.  A preflight request with a matched origin and a permitted method   *)
(* is decorated if and only if every name parsed from                      *)
(* Access-Control-Request-Headers is, compared case-insensitively, one of  *)
(* the origin's allow_headers or one of the eight simple headers; one name *)
(* outside that set and the middleware adds no CORS header at all.         *)
(***************************************************************************)
C8_SimpleHeaderNames ==
    {Accept, AcceptLanguage, ContentType, CacheControl, ContentLanguage,
     Expires, LastModified, Pragma}

C8_NamePermitted(name) ==
    \E p \in C8_SimpleHeaderNames
               \cup {MatchedPolicy.allow_headers[i] :
                        i \in DOMAIN MatchedPolicy.allow_headers} :
        Upper(p) = Upper(name)

C8_AllNamesPermitted ==
    LET names == split_header_values(request, ACRH)
    IN \A i \in DOMAIN names : C8_NamePermitted(names[i])

\* C8: decorated if and only if every parsed name is permitted, and nothing
\* is added otherwise
C8_HeaderCheck ==
    (/\ Called /\ IsPreflight /\ ~InnerHasACAO /\ OriginMatched
     /\ ACRM \in DOMAIN request.headers
     /\ InList(request.headers[ACRM], MatchedPolicy.allow_methods))
    => /\ Decorated <=> C8_AllNamesPermitted
       /\ ~C8_AllNamesPermitted => NoCORSHeaderAdded

\* 'x-header-1 , accept' passes against allow_headers ['X-Header-1']
C8_Witness ==
    /\ Called /\ IsPreflight /\ ~InnerHasACAO /\ OriginMatched
    /\ ACRM \in DOMAIN request.headers
    /\ InList(request.headers[ACRM], MatchedPolicy.allow_methods)
    /\ ACRH \in DOMAIN request.headers
    /\ Len(split_header_values(request, ACRH)) = 2
    /\ split_header_values(request, ACRH)[1] # Accept
    /\ Upper(split_header_values(request, ACRH)[1]) = Upper(XHeader1)
    /\ Upper(split_header_values(request, ACRH)[2]) = Upper(Accept)
    /\ Decorated

(***************************************************************************)
(* C9.  Preflight decoration is all or nothing: for every OPTIONS request  *)
(* and every application response without CORS headers, the result has     *)
(* Vary, Access-Control-Allow-Origin and Access-Control-Allow-Methods all  *)
(* set, or none of Access-Control-Allow-Origin, -Allow-Methods,            *)
(* -Allow-Headers, -Allow-Credentials and -Max-Age.                        *)
(***************************************************************************)
C9_AllOrNothing ==
    (/\ Called /\ IsPreflight
     /\ DOMAIN response.headers \cap CORSHeaders = {})
    => \/ {"Vary", ACAO, "Access-Control-Allow-Methods"}
              \subseteq DOMAIN result.headers
       \/ DOMAIN result.headers \cap PreflightCORSHeaders = {}

\* a decorated preflight without requested headers
C9_Witness ==
    /\ Called /\ IsPreflight
    /\ DOMAIN response.headers \cap CORSHeaders = {}
    /\ ACRH \notin DOMAIN request.headers
    /\ {"Vary", ACAO, "Access-Control-Allow-Methods"}
           \subseteq DOMAIN result.headers
    /\ "Access-Control-Allow-Headers" \notin DOMAIN result.headers

(***************************************************************************)
(* C10.  On both paths the middleware sets Access-Control-Allow-Credentials*)
(* if and only if it decorates the response and the matched policy's       *)
(* allow_credentials is true, and the value it sets is 'true'; it never    *)
(* sets 'false'.                                                           *)
(***************************************************************************)
C10_Credentials ==
    Called
    => /\ ACAC \in AddedHeaders
              <=> (Decorated /\ MatchedPolicy.allow_credentials)
       /\ ACAC \in AddedHeaders => result.headers[ACAC] = "true"
       /\ Decorated /\ ~MatchedPolicy.allow_credentials
              => \/ ACAC \notin DOMAIN result.headers
                 \/ /\ ACAC \in DOMAIN response.headers
                    /\ result.headers[ACAC] = response.headers[ACAC]

\* a regular request decorated under a policy that does not allow credentials
C10_Witness ==
    /\ Called /\ ~IsPreflight /\ Decorated
    /\ ~MatchedPolicy.allow_credentials
    /\ ACAC \notin DOMAIN result.headers
    /\ MatchedPolicy.expose_headers # <<>>

(***************************************************************************)
(* C11.  As stated: on a successful preflight Access-Control-Max-Age is    *)
(* set, to the decimal string of the policy's max_age, if and only if      *)
(* max_age is not null; so for every non-negative max_age, 0 included.     *)
(***************************************************************************)
C11_MaxAgeWhenSet ==
    (Called /\ IsPreflight /\ Decorated)
    => /\ "Access-Control-Max-Age" \in DOMAIN result.headers
              <=> MatchedPolicy.max_age # {}
       /\ \A n \in MatchedPolicy.max_age :
              /\ "Access-Control-Max-Age" \in DOMAIN result.headers
              /\ result.headers["Access-Control-Max-Age"] = Str(n)

(***************************************************************************)
(* C12.  On a successful preflight Access-Control-Allow-Methods is the     *)
(* value of the request's Access-Control-Request-Method header, whichever  *)
(* of the policy's allow_methods that is, and not the list of them.        *)
(***************************************************************************)
C12_AllowMethodsEchoesRequest ==
    (Called /\ IsPreflight /\ Decorated)
    => /\ "Access-Control-Allow-Methods" \in DOMAIN result.headers
       /\ result.headers["Access-Control-Allow-Methods"] = request.headers[ACRM]
       /\ InList(result.headers["Access-Control-Allow-Methods"],
                 MatchedPolicy.allow_methods)

\* GET asked of a policy that permits PUT and GET
C12_Witness ==
    /\ Called /\ IsPreflight /\ Decorated
    /\ MatchedPolicy.allow_methods = <<"PUT", "GET">>
    /\ request.headers[ACRM] = "GET"
    /\ result.headers["Access-Control-Allow-Methods"] = "GET"

(***************************************************************************)
(* C13.  As stated: on a successful preflight Access-Control-Allow-Headers *)
(* is set if and only if the list parsed from                              *)
(* Access-Control-Request-Headers is not empty, and its value is then the  *)
(* request's original Access-Control-Request-Headers string.               *)
(***************************************************************************)
C13_AllowHeadersOriginalString ==
    (Called /\ IsPreflight /\ Decorated)
    => /\ "Access-Control-Allow-Headers" \in DOMAIN result.headers
              <=> split_header_values(request, ACRH) # <<>>
       /\ "Access-Control-Allow-Headers" \in DOMAIN result.headers
              => result.headers["Access-Control-Allow-Headers"]
                     = request.headers[ACRH]

(***************************************************************************)
(* C13, amended.  On a successful preflight Access-Control-Allow-Headers   *)
(* is set if and only if the list parsed from                              *)
(* Access-Control-Request-Headers is not empty, and its value is then the  *)
(* parsed names (each trimmed, the empty entries dropped) in request order *)
(* with ',' between them; that is the request's original string exactly    *)
(* when the original has no whitespace around a name and no empty entry.   *)
(***************************************************************************)
C13_AllowHeadersParsedNames ==
    (Called /\ IsPreflight /\ Decorated)
    => LET names == split_header_values(request, ACRH)
           set == "Access-Control-Allow-Headers" \in DOMAIN result.headers
       IN /\ set <=> names # <<>>
          /\ \A i \in DOMAIN names :
                 /\ names[i] # <<>>
                 /\ names[i][1] \notin Whitespace
                 /\ names[i][Len(names[i])] \notin Whitespace
          /\ set => /\ RSplit(result.headers["Access-Control-Allow-Headers"],
                              ",") = names
                    /\ result.headers["Access-Control-Allow-Headers"]
                           = request.headers[ACRH]
                       <=> RSplit(request.headers[ACRH], ",") = names

\* two names, one of them sent with whitespace around it: the value sent back
\* is shorter than the original string
C13_Witness ==
    /\ Called /\ IsPreflight /\ Decorated
    /\ ACRH \in DOMAIN request.headers
    /\ Len(split_header_values(request, ACRH)) = 2
    /\ "Access-Control-Allow-Headers" \in DOMAIN result.headers
    /\ result.headers["Access-Control-Allow-Headers"] # request.headers[ACRH]
    /\ Len(result.headers["Access-Control-Allow-Headers"])
           = Len(request.headers[ACRH]) - 2

(***************************************************************************)
(* C14.  For every OPTIONS request whose application response carries no   *)
(* Access-Control-Allow-Origin, the result has a 2xx status: a response    *)
(* that is not 2xx is replaced by a fresh empty 200 response without       *)
(* Content-Type, whether or not the CORS checks then pass, and a 2xx       *)
(* response keeps its status, body and Content-Type.                       *)
(***************************************************************************)
C14_PreflightStatus2xx ==
    (Called /\ IsPreflight /\ ~InnerHasACAO)
    => /\ result.status_code >= 200 /\ result.status_code <= 299
       /\ IF Inner2xx
          THEN /\ result.status_code = response.status_code
               /\ result.body = response.body
               /\ "Content-Type" \in DOMAIN result.headers
               /\ result.headers["Content-Type"]
                      = response.headers["Content-Type"]
          ELSE /\ result.status_code = 200
               /\ result.body = ""
               /\ "Content-Type" \notin DOMAIN result.headers
               /\ \A h \in DOMAIN result.headers :
                      h \in {"Content-Length", "Vary"} \cup CORSHeaders

\* a 300 answer replaced and then decorated
C14_Witness ==
    /\ Called /\ IsPreflight /\ ~InnerHasACAO /\ Decorated
    /\ response.status_code = 300
    /\ result.status_code = 200
    /\ result.body = ""
    /\ "Content-Type" \notin DOMAIN result.headers

(***************************************************************************)
(* C15.  A preflight request with a registered Origin and no               *)
(* Access-Control-Request-Method header gets no CORS header added,         *)
(* whatever its Access-Control-Request-Headers and the policy.             *)
(***************************************************************************)
C15_NoRequestMethod ==
    (/\ Called /\ IsPreflight /\ OriginMatched
     /\ ACRM \notin DOMAIN request.headers)
    => /\ NoCORSHeaderAdded
       /\ ~Decorated
       /\ DOMAIN result.headers \cap CORSHeaders \subseteq DOMAIN response.headers

\* requested headers the policy permits, but no requested method
C15_Witness ==
    /\ Called /\ IsPreflight /\ ~InnerHasACAO
    /\ HasOrigin /\ request.headers["Origin"] \in DOMAIN allowed_origins
    /\ ACRM \notin DOMAIN request.headers
    /\ ACRH \in DOMAIN request.headers
    /\ split_header_values(request, ACRH) # <<>>
    /\ C8_AllNamesPermitted
    /\ InList("GET", MatchedPolicy.allow_methods)
    /\ Inner2xx
    /\ result = response

(***************************************************************************)
(* C16.  On the regular path with a matched origin,                        *)
(* Access-Control-Expose-Headers is set if and only if the policy's        *)
(* expose_headers is not empty, and its value is the entries of            *)
(* expose_headers in their order with ',' between them.                    *)
(***************************************************************************)
C16_ExposeHeaders ==
    (Called /\ ~IsPreflight /\ ~InnerHasACAO /\ OriginMatched)
    => /\ "Access-Control-Expose-Headers" \in DOMAIN result.headers
              <=> MatchedPolicy.expose_headers # <<>>
       /\ "Access-Control-Expose-Headers" \in DOMAIN result.headers
              => /\ result.headers["Access-Control-Expose-Headers"]
                        = Join(MatchedPolicy.expose_headers, ",")
                 /\ RSplit(result.headers["Access-Control-Expose-Headers"],
                           ",") = MatchedPolicy.expose_headers

\* X-Header-1,X-Header-2
C16_Witness ==
    /\ Called /\ ~IsPreflight /\ ~InnerHasACAO /\ OriginMatched
    /\ MatchedPolicy.expose_headers = <<XHeader1, XHeader2>>
    /\ "Access-Control-Expose-Headers" \in DOMAIN result.headers
    /\ result.headers["Access-Control-Expose-Headers"]
           = XHeader1 \o <<",">> \o XHeader2

(***************************************************************************)
(* C17.  On a successful preflight the result's Vary header is exactly     *)
(* 'Origin': a Vary value of the application's response is overwritten,    *)
(* not appended to, while the regular path appends ',Origin' to it.        *)
(***************************************************************************)
C17_PreflightVary ==
    /\ (Called /\ IsPreflight /\ Decorated)
       => /\ "Vary" \in DOMAIN result.headers
          /\ result.headers["Vary"] = "Origin"
    /\ (Called /\ ~IsPreflight /\ Decorated /\ "Vary" \in DOMAIN response.headers)
       => result.headers["Vary"] = response.headers["Vary"] \o ",Origin"

\* a 2xx answer with its own Vary, decorated
C17_Witness ==
    /\ Called /\ IsPreflight /\ Decorated /\ Inner2xx
    /\ "Vary" \in DOMAIN response.headers
    /\ response.headers["Vary"] = "Custom-Vary"
    /\ result.headers["Vary"] = "Origin"
    /\ result.body = response.body

(***************************************************************************)
(* C18.  First registration wins: a call of add_origin leaves every entry  *)
(* the registry already had as it was, also when the call names that       *)
(* origin again with another policy, and adds each origin it names that    *)
(* was not registered with the call's policy; nothing else is added.  The  *)
(* call always returns.  By induction over the calls, the policy stored    *)
(* for an origin is the one of the first call that named it.               *)
(***************************************************************************)
C18_Named ==
    IF "str" \in DOMAIN added.allowed_origin
    THEN {added.allowed_origin.str}
    ELSE {added.allowed_origin.list[i] : i \in DOMAIN added.allowed_origin.list}

\* C18: first registration wins
C18_FirstRegistrationWins ==
    (pc = "added")
    => /\ DOMAIN allowed_origins = DOMAIN added.before \cup C18_Named
       /\ \A o \in DOMAIN added.before : allowed_origins[o] = added.before[o]
       /\ \A o \in C18_Named \ DOMAIN added.before :
              allowed_origins[o] = added.policy

\* a list naming a registered origin with another policy and a new origin
C18_Witness ==
    /\ pc = "added"
    /\ added.allowed_origin = [list |-> <<ValidOrigin, "*">>]
    /\ DOMAIN added.before = {ValidOrigin}
    /\ added.before[ValidOrigin] # added.policy
    /\ allowed_origins[ValidOrigin] = added.before[ValidOrigin]
    /\ allowed_origins["*"] = added.policy

(***************************************************************************)
(* C19.  The lookup prefers the exact entry.  The policy that decides the  *)
(* result of a call with an Origin is the origin's own entry when it is    *)
(* registered, also when '*' is registered with another policy; the '*'    *)
(* entry only when the origin is no key; and with neither registered the   *)
(* engine adds no CORS header.                                             *)
(***************************************************************************)
C19_Key ==
    IF request.headers["Origin"] \in DOMAIN allowed_origins
    THEN request.headers["Origin"]
    ELSE "*"

\* C19: the lookup prefers the exact entry
C19_ExactEntryPreferred ==
    (Called /\ HasOrigin /\ ~InnerHasACAO)
    => IF ~OriginMatched
       THEN /\ NoCORSHeaderAdded
            /\ ~Decorated
            /\ ~IsPreflight => result = response
       ELSE LET policy == allowed_origins[C19_Key]
            IN /\ Decorated => result.headers[ACAO] = C19_Key
               /\ Decorated =>
                      IF policy.allow_credentials
                      THEN /\ ACAC \in DOMAIN result.headers
                           /\ result.headers[ACAC] = "true"
                      ELSE ACAC \notin AddedHeaders
               /\ ~IsPreflight
                      => /\ Decorated
                         /\ "Access-Control-Expose-Headers"
                                \in DOMAIN result.headers
                                <=> policy.expose_headers # <<>>
                         /\ policy.expose_headers # <<>>
                                => result.headers[
                                       "Access-Control-Expose-Headers"]
                                       = Join(policy.expose_headers, ",")
               /\ IsPreflight
                      => (Decorated
                              <=> /\ ACRM \in DOMAIN request.headers
                                  /\ method_permitted(request.headers[ACRM],
                                                      policy)
                                  /\ headers_permitted(
                                         split_header_values(request, ACRH),
                                         policy))

\* the origin and '*' registered with policies that differ in credentials
C19_Witness ==
    /\ Called /\ HasOrigin /\ ~InnerHasACAO /\ ~IsPreflight
    /\ request.headers["Origin"] = ValidOrigin
    /\ {ValidOrigin, "*"} \subseteq DOMAIN allowed_origins
    /\ allowed_origins[ValidOrigin].allow_credentials
    /\ ~allowed_origins["*"].allow_credentials
    /\ result.headers[ACAO] = ValidOrigin
    /\ ACAC \in DOMAIN result.headers

(***************************************************************************)
(* C20.  The registry is read-only on the request path: a call of          *)
(* process_response, on whatever branch, leaves allowed_origins, the       *)
(* policies and the lists inside them as they were.                        *)
(***************************************************************************)
C20_RegistryReadOnly ==
    [][pc' = "done" => allowed_origins' = allowed_origins]_vars

\* a decorated preflight whose requested headers were checked against the
\* policy's allow_headers and the simple headers
C20_Witness ==
    /\ Called /\ IsPreflight /\ Decorated
    /\ split_header_values(request, ACRH) # <<>>
    /\ MatchedPolicy.allow_headers # <<>>
    /\ MatchedPolicy.allow_headers = <<XHeader1>>

(***************************************************************************)
(* C22.  process_response never fails: every call, with or without a       *)
(* request, returns a response (a status, a body and headers), and every   *)
(* per-request failure condition -- no request, no Origin, an origin that  *)
(* is not registered, no requested method, a method or a header that is    *)
(* not permitted -- ends with no CORS header added.                        *)
(***************************************************************************)
C22_Failed ==
    \/ request = NoRequest
    \/ ~HasOrigin
    \/ ~OriginMatched
    \/ /\ IsPreflight
       /\ \/ ACRM \notin DOMAIN request.headers
          \/ ~method_permitted(request.headers[ACRM], MatchedPolicy)
          \/ ~headers_permitted(split_header_values(request, ACRH),
                                MatchedPolicy)

\* C22: process_response never fails
C22_NeverFails ==
    (pc = "done")
    => /\ DOMAIN result = {"status_code", "body", "headers"}
       /\ result.status_code \in StatusCodes
       /\ C22_Failed => NoCORSHeaderAdded

\* a list of requested headers with an empty entry and a name that is not
\* permitted
C22_Witness ==
    /\ Called /\ IsPreflight /\ ~InnerHasACAO /\ OriginMatched
    /\ ACRH \in DOMAIN request.headers
    /\ InList(<<>>, RSplit(request.headers[ACRH], ","))
    /\ ~headers_permitted(split_header_values(request, ACRH), MatchedPolicy)
    /\ ~Inner2xx
    /\ result = NoContentTypeResponse

(***************************************************************************)
(* C23.  process_response is idempotent: applied to its own result with    *)
(* the same request it returns that result; a decorated response gets no   *)
(* second ',Origin' in Vary and a replaced preflight response is not       *)
(* replaced again.                                                         *)
(***************************************************************************)
C23_Idempotent ==
    (pc = "again") => result = response

\* the first call appended ',Origin' to the application's Vary
C23_Witness ==
    /\ pc = "again"
    /\ request # NoRequest
    /\ ~IsPreflight
    /\ "Vary" \in DOMAIN response.headers
    /\ response.headers["Vary"] = "Custom-Vary,Origin"
    /\ result.headers["Vary"] = "Custom-Vary,Origin"

(***************************************************************************)
(* C28.  The two paths do not mix their headers: decorating the response   *)
(* to an OPTIONS request never sets Access-Control-Expose-Headers, and     *)
(* decorating the response to another request never sets                   *)
(* Access-Control-Max-Age, Access-Control-Allow-Methods or                 *)
(* Access-Control-Allow-Headers.                                           *)
(***************************************************************************)
C28_PathsDoNotMix ==
    (Called /\ Decorated)
    => IF IsPreflight
       THEN "Access-Control-Expose-Headers" \notin DOMAIN result.headers
       ELSE DOMAIN result.headers
                \cap {"Access-Control-Max-Age", "Access-Control-Allow-Methods",
                      "Access-Control-Allow-Headers"} = {}

\* a preflight decorated under a policy that exposes headers
C28_Witness ==
    /\ Called /\ Decorated /\ IsPreflight
    /\ MatchedPolicy.expose_headers = <<XHeader1, XHeader2>>
    /\ "Access-Control-Max-Age" \in DOMAIN result.headers

(***************************************************************************)
(* C21.  Calls that run at the same time are independent: whatever the     *)
(* order in which the steps of the threads' calls interleave, each call    *)
(* returns the response it returns when it runs alone, and the registry    *)
(* stays as constructed.                                                   *)
(***************************************************************************)
C21_Independent ==
    \A t \in Threads :
        calls[t].pc = "done" => calls[t].response = calls[t].alone

\* two calls for the same unregistered origin, one decorated through the '*'
\* entry while the other was between its lookup and its return
C21_Witness ==
    /\ calls[1].pc = "done" /\ calls[2].pc \in {"checks", "decorate"}
    /\ calls[1].overlap /\ calls[2].overlap
    /\ calls[1].request # calls[2].request
    /\ "Origin" \in DOMAIN calls[1].request.headers
    /\ "Origin" \in DOMAIN calls[2].request.headers
    /\ calls[1].request.headers["Origin"] = UpperOrigin
    /\ calls[2].request.headers["Origin"] = UpperOrigin
    /\ calls[1].origin = "*"
    /\ calls[1].response.headers["Access-Control-Allow-Origin"] = "*"
    /\ calls[1].response # calls[1].inner

(***************************************************************************)
(* C24.  CORS.factory raises TypeError exactly when the local              *)
(* configuration has neither 'allowed_origin' nor 'oslo_config_project',   *)
(* whatever the global configuration holds, and no middleware has been     *)
(* built then; with either key it returns, without raising, the            *)
(* constructor of the filter, which holds the global configuration         *)
(* updated with the local one.                                             *)
(***************************************************************************)
C24_FactoryRequiresOrigin ==
    (config_call.call = "factory")
    => LET local == config_call.local_conf
           global == config_call.global_conf
           missing == {"allowed_origin", "oslo_config_project"}
                          \cap DOMAIN local = {}
       IN /\ config_call.returned.raised \in {"", "TypeError"}
          /\ config_call.returned.raised = "TypeError" <=> missing
          /\ missing => instance = NoInstance
          /\ ~missing
                 => /\ DOMAIN config_call.returned.conf
                           = DOMAIN local
                                 \cup (IF global = [none |-> TRUE] THEN {}
                                       ELSE DOMAIN global)
                    /\ \A k \in DOMAIN local :
                           config_call.returned.conf[k] = local[k]

\* the two keys in the global configuration only: TypeError
C24_Witness ==
    /\ config_call.call = "factory"
    /\ config_call.global_conf # [none |-> TRUE]
    /\ {"allowed_origin", "oslo_config_project"}
           \subseteq DOMAIN config_call.global_conf
    /\ DOMAIN config_call.local_conf = {"allow_methods"}
    /\ config_call.returned.raised = "TypeError"
    /\ instance = NoInstance

(***************************************************************************)
(* C25.  set_defaults accepts the five names allow_credentials,            *)
(* expose_headers, max_age, allow_methods and allow_headers only: a call   *)
(* with any other name, 'allowed_origin' included, raises AttributeError   *)
(* and leaves every default as it was, those of the valid names it passed  *)
(* too; a call with valid names only raises nothing and sets the defaults  *)
(* of exactly those names to the values passed.                            *)
(***************************************************************************)
C25_ValidNames ==
    {"allow_credentials", "expose_headers", "max_age", "allow_methods",
     "allow_headers"}

\* C25: set_defaults accepts the five names only
C25_SetDefaultsNames ==
    (config_call.call = "set_defaults")
    => IF DOMAIN config_call.kwargs \subseteq C25_ValidNames
       THEN /\ config_call.raised = ""
            /\ DOMAIN OPTS = DOMAIN config_call.before
            /\ \A n \in DOMAIN OPTS :
                   OPTS[n] = IF n \in DOMAIN config_call.kwargs
                             THEN config_call.kwargs[n]
                             ELSE config_call.before[n]
       ELSE /\ config_call.raised = "AttributeError"
            /\ OPTS = config_call.before

\* max_age passed together with allowed_origin: max_age keeps its default
C25_Witness ==
    /\ config_call.call = "set_defaults"
    /\ DOMAIN config_call.kwargs = {"allowed_origin", "max_age"}
    /\ config_call.raised = "AttributeError"
    /\ config_call.kwargs["max_age"] = "10"
    /\ OPTS["max_age"] = "3600"
    /\ OPTS["allow_methods"] = "['GET','DELETE']"

(***************************************************************************)
(* C26.  The order of the calls in ConfigurableMiddleware.__call__:         *)
(* process_request runs first; when it returns a response, that response   *)
(* is returned, the wrapped application is not called and process_response *)
(* is not applied; otherwise the wrapped application is called once and    *)
(* process_response is applied once, after it, to its response.            *)
(***************************************************************************)
C26_CallOrder ==
    /\ mw_pc = "idle" => events = <<>>
    /\ mw_pc = "application"
           => events = <<"process_request">> /\ mw_response = None
    /\ mw_pc = "returned"
           => \/ /\ events = <<"process_request">>
                 /\ mw_response # None
                 /\ mw_results # None
                 /\ mw_response = process_request(mw_req, mw_results.results)
                 /\ mw_returned = mw_response
              \/ /\ events = <<"process_request", "application",
                               "process_response">>
                 /\ mw_response \in AppResponses
                 /\ mw_returned = mw_response
                 /\ mw_results = None
                 /\ process_request(mw_req, <<>>) = None

\* a request answered by process_request itself
C26_Witness ==
    /\ mw_pc = "returned"
    /\ events = <<"process_request">>
    /\ mw_returned # None
    /\ mw_returned.status_code = 503

C29_NeverAboveLimit ==
    (limiter # None)
    => /\ limiter.bytes_read = Len(taken)
       /\ last_op # NoOp
              => /\ limiter.bytes_read = last_op.before + Len(last_op.data)
                 /\ limiter.bytes_read >= last_op.before
                 /\ last_op.returned => limiter.bytes_read <= limiter.limit
                 /\ last_op.raised => ~last_op.returned
                 /\ last_op.raised => limiter.bytes_read > limiter.limit
                 /\ (last_op.before <= limiter.limit
                         /\ limiter.bytes_read > limiter.limit)
                        => last_op.raised
                 /\ (last_op.before > limiter.limit /\ last_op.data # <<>>)
                        => last_op.raised

\* an operation after the one that passed the limit takes one more byte
C29_Witness ==
    /\ limiter # None
    /\ last_op # NoOp
    /\ last_op.before > limiter.limit
    /\ Len(last_op.data) = 1
    /\ last_op.raised
    /\ limiter.bytes_read = Len(taken)
    /\ limiter.bytes_read = limiter.limit + 2

(***************************************************************************)
(* C30.  RequestBodySizeLimiter rejects before it forwards.  A request     *)
(* with a known Content-Length above max_request_body_size ends in         *)
(* HTTPRequestEntityTooLarge and the application is not called; one with   *)
(* a known Content-Length of at most the maximum is forwarded with its     *)
(* body stream as it is; one with no Content-Length is forwarded with its  *)
(* body stream in a LimitingReader whose limit is the maximum.             *)
(***************************************************************************)
C30_RejectBeforeForward ==
    (sl_pc # "idle")
    => IF content_length = None
       THEN /\ sl_pc = "application" /\ invoked
            /\ limiter # None
            /\ limiter.limit = max_request_body_size
       ELSE IF content_length.length > max_request_body_size
       THEN sl_pc = "rejected" /\ ~invoked /\ limiter = None
       ELSE sl_pc = "application" /\ invoked /\ limiter = None

\* a body one byte longer than the maximum, its length stated
C30_Witness ==
    /\ sl_pc = "rejected"
    /\ content_length # None
    /\ content_length.length = max_request_body_size + 1
    /\ Len(body_file) = content_length.length
    /\ ~invoked

=============================================================================
